---- MODULE Spec2Model ----
(***************************************************************************)
(* DocAI platform: the ingestion pipeline, the version lifecycle and the   *)
(* three chunk stores, as a state machine.                                 *)
(*                                                                         *)
(* A process_document run is a coroutine; every awaited store call is a    *)
(* suspension point, so a run is a sequence of steps (one per await group) *)
(* with its position in run[d].pc.  The API handlers of versions.py and    *)
(* delete_document are whole-handler actions whose failure point is an     *)
(* input.                                                                  *)
(***************************************************************************)
EXTENDS Integers, Sequences, FiniteSets, TLC

\* ------------------------------------------------------------------ bounds
MaxDocs == 3      \* documents ever uploaded (doc_id = uuid4, never reused)
MaxHashes == 3    \* distinct file contents
MaxChunks == 2    \* text chunks semantic_chunk returns for one document
MaxTables == 1    \* table chunks semantic_chunk returns for one document
MaxApiDocs == 2   \* documents uploaded where every status and link call is enumerated
MaxVersion == 3   \* manual links are offered while the parent's major version is below this

DocIds == 1..MaxDocs
Hashes == 1..MaxHashes

\* SQL NULL / Python None for parent_version_id, matched_doc_id, detected_version
NULL == 0

VARIABLES
    documents,   \* metadata store, table documents: doc_id -> row
    chunks,      \* metadata store, table chunks: set of rows
    qdrant,      \* vector store: set of points (payload)
    es,          \* lexical store: set of indexed documents
    run,         \* the process_document coroutines: doc_id -> local state
    deleted,     \* doc_ids for which delete_document returned normally
    version_diffs, \* metadata store, table version_diffs: set of rows
    call         \* the query / diff / agent call last served: arguments and outcome

vars == <<documents, chunks, qdrant, es, run, deleted, version_diffs, call>>

\* ------------------------------------------------------------ data model
\* ProcessingStatus, in the order process_document writes them
StatusOrder == <<"pending", "parsing", "chunking", "summarizing", "embedding", "ready">>

\* the statuses update_version_status accepts
valid_statuses == {"draft", "active", "superseded", "archived"}

\* Column defaults of a freshly inserted documents row (the INSERT of
\* _register_document names none of the version columns).
DocumentDefaults ==
    [is_latest |-> TRUE, version_status |-> "active",
     parent_version_id |-> NULL, version_number |-> 1, chunk_count |-> 0]

\* The local state of a coroutine that has not started.
IdleRun ==
    [pc |-> "idle", file_hash |-> NULL, chunks |-> <<>>, candidates |-> {},
     matched |-> NULL, new_is_newer |-> TRUE, detected_version |-> NULL,
     is_doc_latest |-> TRUE, written |-> <<>>,
     caught |-> FALSE]   \* _detect_and_link_version ran its except branch

Exists(d) == d \in DOMAIN documents

\* The frame of a coroutine that has returned is released; only its outcome
\* (pc) stays.
Collected(r) == [IdleRun EXCEPT !.pc = r.pc]

\* chunk_id of the i-th Chunk object built for document d (uuid4: unique)
ChunkId(d, i) == <<d, i>>

Min(S) == CHOOSE x \in S : \A y \in S : x <= y
Max2(a, b) == IF a >= b THEN a ELSE b

\* ------------------------------------------------------- pure functions
\* semantic_chunk: k section chunks then t table chunks, chunk_index counting up
semantic_chunk(k, t) ==
    [i \in 1..(k + t) |->
        [chunk_index |-> i - 1,
         chunk_type |-> IF i <= k THEN "text" ELSE "table"]]

\* Chunk(...) as built for a summary: chunk_index is not passed, so it keeps
\* the model default 0
SummaryChunk(type) == [chunk_index |-> 0, chunk_type |-> type]

\* _generate_summaries_and_metadata: the summary chunks for a chunk list, given
\* whether the section summary and the document summary LLM calls returned text.
\* Only text chunks with a section path are summarised; the document summary
\* is attempted only when some section summary exists.
_generate_summaries_and_metadata(cs, sec_ok, doc_ok) ==
    LET has_text == \E i \in 1..Len(cs) : cs[i].chunk_type = "text"
        sec == IF has_text /\ sec_ok THEN <<SummaryChunk("section_summary")>> ELSE <<>>
        doc == IF sec # <<>> /\ doc_ok THEN <<SummaryChunk("doc_summary")>> ELSE <<>>
    IN sec \o doc

\* _increment_version: v<N>.x -> v<N+1>.0
_increment_version(v) == v + 1

\* _decrement_version: v<N>.x -> v<max(N-1,1)>.0
_decrement_version(v) == Max2(v - 1, 1)

\* _update_status: UPDATE documents SET processing_status WHERE doc_id = d
_update_status(docs, d, status) ==
    IF d \in DOMAIN docs THEN [docs EXCEPT ![d].processing_status = status] ELSE docs

\* (mutant) _link_version without the UPDATE that supersedes the old document
_link_version_keeps_old_latest(docs, new_doc_id, old_doc_id) ==
    IF new_doc_id \in DOMAIN docs
    THEN [docs EXCEPT ![new_doc_id].parent_version_id = old_doc_id]
    ELSE docs

\* _link_version: the two UPDATEs of its transaction
_link_version(docs, new_doc_id, old_doc_id) ==
    LET old_version == IF old_doc_id \in DOMAIN docs
                       THEN docs[old_doc_id].version_number ELSE 1
        d1 == IF new_doc_id \in DOMAIN docs
              THEN [docs EXCEPT ![new_doc_id].parent_version_id = old_doc_id,
                                ![new_doc_id].version_number = _increment_version(old_version)]
              ELSE docs
    IN IF old_doc_id \in DOMAIN d1
       THEN [d1 EXCEPT ![old_doc_id].is_latest = FALSE,
                       ![old_doc_id].version_status = "superseded"]
       ELSE d1

\* _link_as_older_version: the two UPDATEs of its transaction
_link_as_older_version_demotes_existing(docs, uploaded_doc_id, existing_doc_id, detected_version) ==
    [e \in DOMAIN docs |->
        IF e = uploaded_doc_id
        THEN [docs[e] EXCEPT !.parent_version_id = docs[existing_doc_id].parent_version_id,
                             !.is_latest = FALSE, !.version_status = "superseded"]
        ELSE IF e = existing_doc_id
        THEN [docs[e] EXCEPT !.parent_version_id = uploaded_doc_id, !.is_latest = FALSE]
        ELSE docs[e]]

_link_as_older_version(docs, uploaded_doc_id, existing_doc_id, detected_version) ==
    LET found == existing_doc_id \in DOMAIN docs
        existing_version == IF found THEN docs[existing_doc_id].version_number ELSE 1
        existing_parent_id == IF found THEN docs[existing_doc_id].parent_version_id ELSE NULL
        older_version == IF detected_version # NULL THEN detected_version
                         ELSE _decrement_version(existing_version)
        d1 == IF uploaded_doc_id \in DOMAIN docs
              THEN [docs EXCEPT ![uploaded_doc_id].parent_version_id = existing_parent_id,
                                ![uploaded_doc_id].version_number = older_version,
                                ![uploaded_doc_id].is_latest = FALSE,
                                ![uploaded_doc_id].version_status = "superseded"]
              ELSE docs
    IN IF found
       THEN [d1 EXCEPT ![existing_doc_id].parent_version_id = uploaded_doc_id]
       ELSE d1

\* SELECT chunk_id FROM chunks WHERE doc_id = d
ChunkIdsOf(d) == {c.chunk_id : c \in {x \in chunks : x.doc_id = d}}

\* qdrant.set_payload(payload={"is_latest": v}, points=ids)
set_payload(points, ids, v) ==
    {IF p.chunk_id \in ids THEN [p EXCEPT !.is_latest = v] ELSE p : p \in points}

\* es.update_by_query(script is_latest = v, query term doc_id = d)
update_by_query(index, d, v) ==
    {IF p.doc_id = d THEN [p EXCEPT !.is_latest = v] ELSE p : p \in index}

\* The payloads _store_to_qdrant / _store_to_elasticsearch build for a chunk list
Payloads(d, cs, is_latest) ==
    {[chunk_id |-> ChunkId(d, i), doc_id |-> d, chunk_index |-> cs[i].chunk_index,
      chunk_type |-> cs[i].chunk_type, is_latest |-> is_latest] : i \in 1..Len(cs)}

\* The rows _store_chunks_metadata inserts (the chunks table has no is_latest)
ChunkRows(d, cs) ==
    {[chunk_id |-> ChunkId(d, i), doc_id |-> d, chunk_index |-> cs[i].chunk_index,
      chunk_type |-> cs[i].chunk_type] : i \in 1..Len(cs)}

\* _check_file_hash: a non-errored document with this hash
_check_file_hash(h) ==
    {e \in DOMAIN documents :
        documents[e].file_hash = h /\ documents[e].processing_status # "error"}

\* _find_by_title_similarity: ready, latest documents other than the upload.
\* Titles are free inputs, so every such document may pass similarity > 0.4;
\* the verdict of _llm_verify then picks among them.
_find_by_title_similarity(exclude_doc_id) ==
    {e \in DOMAIN documents :
        /\ e # exclude_doc_id
        /\ documents[e].processing_status = "ready"
        /\ documents[e].is_latest}

\* _find_by_content_similarity: documents with a doc_summary point whose
\* payload says is_latest, other than the upload
_find_by_content_similarity(exclude_doc_id) ==
    {p.doc_id : p \in {x \in qdrant :
        x.chunk_type = "doc_summary" /\ x.is_latest /\ x.doc_id # exclude_doc_id}}

\* no call served yet
NoCall == [op |-> "none"]

\* ------------------------------------------------------------------ init
Init ==
    /\ documents = <<>>
    /\ chunks = {}
    /\ qdrant = {}
    /\ es = {}
    /\ run = [d \in DocIds |-> IdleRun]
    /\ deleted = {}
    /\ version_diffs = {}
    /\ call = NoCall

Active(d) == run[d].pc \notin {"idle", "done", "failed"}

\* the frame of run d exists: the run started and was not collected
Live(d) == run[d].file_hash # NULL
Quiescent == \A d \in DocIds : ~Active(d)

\* run d moves to pc p and logs a status write
Step(d, p, status) ==
    run' = [run EXCEPT ![d].pc = p, ![d].written = Append(@, status)]

\* ----------------------------------------------- process_document, by step
\* upload endpoint: doc_id = str(uuid.uuid4()), then process_document starts
Begin(d, h) ==
    /\ run[d].pc = "idle"
    /\ d = Min({e \in DocIds : run[e].pc = "idle"})
    /\ run' = [e \in DocIds |->
                 IF e = d THEN [IdleRun EXCEPT !.pc = "check_hash", !.file_hash = h]
                 ELSE IF Active(e) THEN run[e]
                 ELSE Collected(run[e])]
    /\ UNCHANGED <<documents, chunks, qdrant, es, deleted, version_diffs, call>>

\* Step 0a: duplicate check; a hit raises ValueError, which the handler
\* answers with _update_status(doc_id, ERROR) on a row that does not exist
CheckHash(d) ==
    /\ run[d].pc = "check_hash"
    /\ IF _check_file_hash(run[d].file_hash) # {}
       THEN /\ Step(d, "failed", "error")
            /\ documents' = _update_status(documents, d, "error")
       ELSE /\ run' = [run EXCEPT ![d].pc = "register"]
            /\ UNCHANGED documents
    /\ UNCHANGED <<chunks, qdrant, es, deleted, version_diffs, call>>

\* Step 0b: INSERT INTO documents ... 'pending'
Register(d) ==
    /\ run[d].pc = "register"
    /\ ~Exists(d)
    /\ documents' = (d :> ([file_hash |-> run[d].file_hash,
                            processing_status |-> "pending"] @@ DocumentDefaults))
                    @@ documents
    /\ Step(d, "parsing", "pending")
    /\ UNCHANGED <<chunks, qdrant, es, deleted, version_diffs, call>>

\* Step 1-2: status parsing, upload to the object store, parse, title/pages
Parsing(d) ==
    /\ run[d].pc = "parsing"
    /\ documents' = _update_status(documents, d, "parsing")
    /\ Step(d, "chunking", "parsing")
    /\ UNCHANGED <<chunks, qdrant, es, deleted, version_diffs, call>>

\* Step 3: status chunking, semantic_chunk
Chunking(d, k, t) ==
    /\ run[d].pc = "chunking"
    /\ documents' = _update_status(documents, d, "chunking")
    /\ run' = [run EXCEPT ![d].pc = IF k + t = 0 THEN "ready" ELSE "summarizing",
                          ![d].chunks = semantic_chunk(k, t),
                          ![d].written = Append(@, "chunking")]
    /\ UNCHANGED <<chunks, qdrant, es, deleted, version_diffs, call>>

\* (mutant) Step 3.5 writing the status of Step 4
Summarizing_writes_embedding(d, sec_ok, doc_ok) ==
    /\ run[d].pc = "summarizing"
    /\ documents' = _update_status(documents, d, "embedding")
    /\ run' = [run EXCEPT ![d].pc = "detect",
                          ![d].chunks = @ \o _generate_summaries_and_metadata(@, sec_ok, doc_ok),
                          ![d].written = Append(@, "embedding")]
    /\ UNCHANGED <<chunks, qdrant, es, deleted, version_diffs, call>>

\* Step 3.5: status summarizing, summary chunks appended to the chunk list
Summarizing(d, sec_ok, doc_ok) ==
    /\ run[d].pc = "summarizing"
    /\ documents' = _update_status(documents, d, "summarizing")
    /\ run' = [run EXCEPT ![d].pc = "detect",
                          ![d].chunks = @ \o _generate_summaries_and_metadata(@, sec_ok, doc_ok),
                          ![d].written = Append(@, "summarizing")]
    /\ UNCHANGED <<chunks, qdrant, es, deleted, version_diffs, call>>

\* Step 3.6, VersionDetector.detect: the two candidate queries.  The content
\* query runs only when a document summary was generated.
Detect(d) ==
    /\ run[d].pc = "detect"
    /\ LET cs == run[d].chunks
           has_summary == \E i \in 1..Len(cs) : cs[i].chunk_type = "doc_summary"
           cands == _find_by_title_similarity(d)
                    \cup (IF has_summary THEN _find_by_content_similarity(d) ELSE {})
       IN run' = [run EXCEPT ![d].candidates = cands,
                             ![d].pc = IF cands = {} THEN "embedding" ELSE "verify"]
    /\ UNCHANGED <<documents, chunks, qdrant, es, deleted, version_diffs, call>>

\* _llm_verify answers "no version" (or confidence < AUTO_LINK_THRESHOLD, or
\* the call fails): _detect_and_link_version returns True
LlmNoMatch(d) ==
    /\ run[d].pc = "verify"
    /\ run' = [run EXCEPT ![d].pc = "embedding"]
    /\ UNCHANGED <<documents, chunks, qdrant, es, deleted, version_diffs, call>>

\* _llm_verify confirms a version of m, newer or older, with a detected version
LlmMatch(d, m, newer, dv) ==
    /\ run[d].pc = "verify"
    /\ run' = [run EXCEPT ![d].pc = "link", ![d].matched = m,
                          ![d].new_is_newer = newer, ![d].detected_version = dv]
    /\ UNCHANGED <<documents, chunks, qdrant, es, deleted, version_diffs, call>>

\* the transaction of _link_version ("uploaded is newer")
LinkNewer(d) ==
    /\ run[d].pc = "link"
    /\ run[d].new_is_newer
    /\ documents' = _link_version(documents, d, run[d].matched)
    /\ run' = [run EXCEPT ![d].pc = "mark", ![d].is_doc_latest = TRUE]
    /\ UNCHANGED <<chunks, qdrant, es, deleted, version_diffs, call>>

\* the transaction of _link_as_older_version ("uploaded is older")
LinkOlderTx(d) ==
    /\ run[d].pc = "link"
    /\ ~run[d].new_is_newer
    /\ documents' = _link_as_older_version(documents, d, run[d].matched,
                                           run[d].detected_version)
    /\ run' = [run EXCEPT ![d].pc = "embedding", ![d].is_doc_latest = FALSE]
    /\ UNCHANGED <<chunks, qdrant, es, deleted, version_diffs>>

LinkOlder(d) == LinkOlderTx(d) /\ UNCHANGED call

\* the link transaction raises and rolls back: caught, "treated as latest"
LinkFails(d) ==
    /\ run[d].pc = "link"
    /\ run' = [run EXCEPT ![d].pc = "embedding", ![d].is_doc_latest = TRUE,
                          ![d].caught = TRUE]
    /\ UNCHANGED <<documents, chunks, qdrant, es, deleted, version_diffs, call>>

\* _mark_chunks_not_latest(old): no chunk rows, no update; a failed payload
\* update of either store is logged and swallowed
_mark_chunks_not_latest(d, qdrant_fails, es_fails) ==
    /\ run[d].pc = "mark"
    /\ LET old == run[d].matched
           ids == ChunkIdsOf(old)
       IN /\ qdrant' = IF ids = {} \/ qdrant_fails THEN qdrant
                       ELSE set_payload(qdrant, ids, FALSE)
          /\ es' = IF ids = {} \/ es_fails THEN es
                   ELSE update_by_query(es, old, FALSE)
    /\ run' = [run EXCEPT ![d].pc = "embedding"]
    /\ UNCHANGED <<documents, chunks, deleted, version_diffs>>

MarkChunksNotLatest(d, qdrant_fails, es_fails) ==
    _mark_chunks_not_latest(d, qdrant_fails, es_fails) /\ UNCHANGED call

\* the SELECT of _mark_chunks_not_latest raises, after the link transaction
\* committed: caught in _detect_and_link_version, which returns True
MarkFails(d) ==
    /\ run[d].pc = "mark"
    /\ run' = [run EXCEPT ![d].pc = "embedding", ![d].is_doc_latest = TRUE,
                          ![d].caught = TRUE]
    /\ UNCHANGED <<documents, chunks, qdrant, es, deleted, version_diffs, call>>

\* the title query of VersionDetector.detect raises: caught in
\* _detect_and_link_version, which returns True
DetectFails(d) ==
    /\ run[d].pc = "detect"
    /\ run' = [run EXCEPT ![d].pc = "embedding", ![d].is_doc_latest = TRUE,
                          ![d].caught = TRUE]
    /\ UNCHANGED <<documents, chunks, qdrant, es, deleted, version_diffs, call>>

\* Step 4: status embedding, encode
Embedding(d) ==
    /\ run[d].pc = "embedding"
    /\ documents' = _update_status(documents, d, "embedding")
    /\ Step(d, "store_qdrant", "embedding")
    /\ UNCHANGED <<chunks, qdrant, es, deleted, version_diffs, call>>

\* Step 5a: _store_to_qdrant (upsert, at most one batch of 100 here)
StoreQdrant(d) ==
    /\ run[d].pc = "store_qdrant"
    /\ qdrant' = qdrant \cup Payloads(d, run[d].chunks, run[d].is_doc_latest)
    /\ run' = [run EXCEPT ![d].pc = "store_es"]
    /\ UNCHANGED <<documents, chunks, es, deleted, version_diffs, call>>

\* Step 5b: _store_to_elasticsearch (async_bulk, refresh)
StoreEs(d) ==
    /\ run[d].pc = "store_es"
    /\ es' = es \cup Payloads(d, run[d].chunks, run[d].is_doc_latest)
    /\ run' = [run EXCEPT ![d].pc = "store_pg"]
    /\ UNCHANGED <<documents, chunks, qdrant, deleted, version_diffs, call>>

\* Step 5c: _store_chunks_metadata
StorePg(d) ==
    /\ run[d].pc = "store_pg"
    /\ chunks' = chunks \cup ChunkRows(d, run[d].chunks)
    /\ run' = [run EXCEPT ![d].pc = "ready"]
    /\ UNCHANGED <<documents, qdrant, es, deleted, version_diffs, call>>

\* Step 6 (or the early return of Step 3 when no chunk was produced)
Ready(d) ==
    /\ run[d].pc = "ready"
    /\ documents' = _update_status(documents, d, "ready")
    /\ Step(d, IF run[d].chunks = <<>> THEN "done" ELSE "count", "ready")
    /\ UNCHANGED <<chunks, qdrant, es, deleted, version_diffs, call>>

\* _update_chunk_count, return doc_id
ChunkCount(d) ==
    /\ run[d].pc = "count"
    /\ documents' = [documents EXCEPT ![d].chunk_count = Len(run[d].chunks)]
    /\ run' = [run EXCEPT ![d].pc = "done"]
    /\ UNCHANGED <<chunks, qdrant, es, deleted, version_diffs, call>>

\* The awaited call the run is about to make raises (store or parser
\* failure): except-branch of process_document, _update_status(ERROR), re-raise.
\* Failures inside _detect_and_link_version are caught there, not here.
RaisingPcs == {"check_hash", "register", "parsing", "chunking", "summarizing",
               "embedding", "store_qdrant", "store_es", "store_pg", "ready", "count"}

Raise(d) ==
    /\ run[d].pc \in RaisingPcs
    /\ documents' = _update_status(documents, d, "error")
    /\ Step(d, "failed", "error")
    /\ UNCHANGED <<chunks, qdrant, es, deleted, version_diffs, call>>

\* ------------------------------------------- sequential ingestion (SpecSeq)
ReadyLatest(m) ==
    /\ Exists(m)
    /\ documents[m].processing_status = "ready"
    /\ documents[m].is_latest

\* the steps of run d up to the verdict of the LLM; K, T: the chunk counts the
\* chunker may return, B: the outcomes of the summary LLM calls
StepsBeforeVerdict(d, K, T, B) ==
    \/ CheckHash(d)
    \/ Register(d)
    \/ Parsing(d)
    \/ \E k \in K, t \in T : Chunking(d, k, t)
    \/ \E sec_ok \in B, doc_ok \in B : Summarizing(d, sec_ok, doc_ok)
    \/ Detect(d)
    \/ LlmNoMatch(d)

\* the steps of run d after the verdict of the LLM; F: whether a payload
\* update of _mark_chunks_not_latest may fail
StepsAfterVerdict(d, F) ==
    \/ LinkNewer(d)
    \/ LinkOlder(d)
    \/ \E qf \in F, ef \in F : MarkChunksNotLatest(d, qf, ef)
    \/ Embedding(d)
    \/ StoreQdrant(d)
    \/ StoreEs(d)
    \/ StorePg(d)
    \/ Ready(d)
    \/ ChunkCount(d)

\* a store, parser or LLM call of run d fails
Failures(d) ==
    \/ DetectFails(d)
    \/ LinkFails(d)
    \/ MarkFails(d)
    \/ Raise(d)

\* file hashes are opaque: a new content takes the next unused hash value
HashesInUse ==
    {documents[e].file_hash : e \in DOMAIN documents}
    \cup {run[e].file_hash : e \in {x \in DocIds : Active(x)}}
NextHashes == {h \in Hashes : h <= Cardinality(HashesInUse) + 1}

\* version strings the LLM may report for the upload (None, or "v1.0")
DetectedVersions == {NULL, 1}

\* process_document runs one at a time; every confirmed match names a
\* document that is ready and latest
NextSeq ==
    \/ \E d \in DocIds, h \in NextHashes : Quiescent /\ Begin(d, h)
    \/ \E d \in DocIds : StepsBeforeVerdict(d, {0, 1}, {0}, {TRUE})
    \/ \E d \in DocIds, newer \in BOOLEAN :
         \E m \in {c \in run[d].candidates : ReadyLatest(c)}, dv \in DetectedVersions :
             LlmMatch(d, m, newer, dv)
    \/ \E d \in DocIds : StepsAfterVerdict(d, {FALSE})
    \/ \E d \in DocIds : Failures(d)

SpecSeq == Init /\ [][NextSeq]_vars

\* ---------------------------------------------------------- version chains
Parent(d) == documents[d].parent_version_id

\* a and b are neighbours in the parent-version graph
Linked(a, b) == Parent(a) = b \/ Parent(b) = a

RECURSIVE Grow(_)
Grow(S) ==
    LET T == S \cup {e \in DOMAIN documents : \E x \in S : Linked(x, e)}
    IN IF T = S THEN S ELSE Grow(T)

\* the version chain of d: the documents connected to it through parent_version_id
VersionChain(d) == Grow({d})

LatestIn(C) == {e \in C : documents[e].is_latest}

\* C1: with process_document runs executed one at a time and every confirmed
\* match naming a ready, latest document, every version chain contains exactly
\* one document with is_latest = true.
C1_OneLatestPerChain ==
    \A d \in DOMAIN documents : Cardinality(LatestIn(VersionChain(d))) = 1

\* a chain of three built with one "uploaded is newer" link (child uploaded
\* after its parent) and one "uploaded is older" link (parent uploaded after
\* its child), all runs finished
C1_Witness ==
    /\ Quiescent
    /\ \E a, b, c \in DOMAIN documents :
         /\ Parent(b) = a /\ b > a
         /\ Parent(c) = b /\ b > c
         /\ Cardinality(LatestIn(VersionChain(a))) = 1

\* ------------------------------------------------------ processing status
Rank(s) == CHOOSE i \in 1..Len(StatusOrder) : StatusOrder[i] = s

\* w is an increasing selection of StatusOrder, optionally closed by one error
WellOrdered(w) ==
    LET n == Len(w)
        m == IF n > 0 /\ w[n] = "error" THEN n - 1 ELSE n
    IN /\ \A i \in 1..m : w[i] # "error"
       /\ \A i \in 1..(m - 1) : Rank(w[i]) < Rank(w[i + 1])

\* C5: the statuses a process_document run writes follow pending, parsing,
\* chunking, summarizing, embedding, ready without reordering or repetition;
\* error is written at most once, last, and is written whenever a stage raised.
C5_StatusOrder ==
    \A d \in DocIds :
        LET w == run[d].written
        IN /\ WellOrdered(w)
           /\ (run[d].pc = "failed" /\ Live(d)) => (w # <<>> /\ w[Len(w)] = "error")
           /\ (w # <<>> /\ w[Len(w)] = "error") => run[d].pc = "failed"

\* a run that wrote every status and then failed in _update_chunk_count
C5_Witness ==
    \E d \in DocIds :
        /\ run[d].pc = "failed"
        /\ run[d].written = StatusOrder \o <<"error">>

\* ---------------------------------------------------------- chunk indices
IndicesOf(store, d) == {x.chunk_index : x \in {y \in store : y.doc_id = d}}
CountOf(store, d) == Cardinality({y \in store : y.doc_id = d})

\* C9: for every ready document the chunk_index values written to each of the
\* three stores are exactly {0, ..., n-1}, n the number of chunks written.
C9_DenseChunkIndex ==
    \A d \in DOMAIN documents :
        documents[d].processing_status = "ready" =>
            /\ IndicesOf(chunks, d) = 0..(CountOf(chunks, d) - 1)
            /\ IndicesOf(qdrant, d) = 0..(CountOf(qdrant, d) - 1)
            /\ IndicesOf(es, d) = 0..(CountOf(es, d) - 1)

\* ------------------------------------------ interleaved ingestion (SpecConc)
\* Uploads are background tasks on one event loop: runs interleave at their
\* awaits.  The LLM confirms one of the candidates the run was shown; no store
\* call fails.
NextConc ==
    \/ \E d \in DocIds, h \in NextHashes : Begin(d, h)
    \/ \E d \in DocIds : StepsBeforeVerdict(d, {0, 1}, {0}, {TRUE})
    \/ \E d \in DocIds, newer \in BOOLEAN :
         \E m \in run[d].candidates : LlmMatch(d, m, newer, NULL)
    \/ \E d \in DocIds : StepsAfterVerdict(d, {FALSE})

SpecConc == Init /\ [][NextConc]_vars

\* two finished runs, on different file contents, that both confirmed e as
\* their predecessor
SamePredecessor(a, b, e) ==
    /\ a # b
    /\ Cardinality({run[a].file_hash, run[b].file_hash, documents[e].file_hash}) = 3
    /\ run[a].pc = "done" /\ run[b].pc = "done"
    /\ run[a].matched = e /\ run[b].matched = e
    /\ run[a].new_is_newer /\ run[b].new_is_newer

\* C3: when two interleaved runs both detected the same latest document as
\* their predecessor, the chain has exactly one is_latest document once both
\* runs have finished.
C3_OneLatestAfterRace ==
    \A a, b \in DocIds, e \in DOMAIN documents :
        (Quiescent /\ SamePredecessor(a, b, e)) =>
            Cardinality(LatestIn(VersionChain(e))) = 1

\* C6: no two documents whose processing_status is not error have the same
\* file_hash.
C6_UniqueHash ==
    \A a, b \in DOMAIN documents :
        (/\ a # b
         /\ documents[a].processing_status # "error"
         /\ documents[b].processing_status # "error")
        => documents[a].file_hash # documents[b].file_hash

\* ------------------------------------------------- API handlers (versions.py)
\* PUT /{doc_id}/status.  fail: the call of the sync block that raises
\* ("qdrant": set_payload, "es": update_by_query); the handler logs it and
\* answers ok.
update_version_status(d, status, fail) ==
    /\ status \in valid_statuses
    /\ Exists(d)
    /\ LET is_latest == (status = "active")
           ids == ChunkIdsOf(d)
       IN /\ documents' = [documents EXCEPT ![d].version_status = status,
                                            ![d].is_latest = is_latest]
          /\ qdrant' = IF ids = {} \/ fail = "qdrant" THEN qdrant
                       ELSE set_payload(qdrant, ids, is_latest)
          /\ es' = IF ids = {} \/ fail \in {"qdrant", "es"} THEN es
                   ELSE update_by_query(es, d, is_latest)
    /\ UNCHANGED <<chunks, run, deleted, version_diffs, call>>

\* ------------------------------------------------ diff engine (diff_engine.py)
\* what the semantic-diff LLM call does, and whether the INSERT goes through
DiffOutcomes == {"ok", "llm_fails", "store_fails"}

\* version_diffs.created_at is not written by the INSERT: the column default
\* gives it, None (no default) or the time of the insert
NOW == 1
CreatedAtDefaults == {NULL, NOW}

\* _load_text_chunks + _compute_text_diff / _compute_structural_diff: the two
\* layers are functions of the text chunk rows of the two documents
TextChunksOf(d) == {x.chunk_id : x \in {y \in chunks : y.doc_id = d /\ y.chunk_type = "text"}}
_compute_text_diff(old_doc_id, new_doc_id) ==
    [old_chunks |-> TextChunksOf(old_doc_id), new_chunks |-> TextChunksOf(new_doc_id)]
_compute_structural_diff(old_doc_id, new_doc_id) ==
    [total_old |-> Cardinality(TextChunksOf(old_doc_id)),
     total_new |-> Cardinality(TextChunksOf(new_doc_id))]

\* _compute_semantic_diff: the LLM's analysis, or on a failed call the summary
\* text "语义分析失败: <error>" with no details and no impact analysis
_compute_semantic_diff(llm_ok) ==
    IF llm_ok
    THEN [change_summary |-> "summary", change_details |-> <<"detail">>,
          impact_analysis |-> "impact"]
    ELSE [change_summary |-> "semantic analysis failed: error",
          change_details |-> <<>>, impact_analysis |-> ""]

\* _get_existing_diff: the rows of the pair (joined with both documents)
_get_existing_diff(old_doc_id, new_doc_id) ==
    {r \in version_diffs :
        /\ r.old_version_id = old_doc_id /\ r.new_version_id = new_doc_id
        /\ Exists(old_doc_id) /\ Exists(new_doc_id)}

\* VersionDiffResponse built from a row / from the freshly computed layers
ResponseOf(r, created_at) ==
    [diff_id |-> r.diff_id, old_version_id |-> r.old_version_id,
     new_version_id |-> r.new_version_id, text_diff_data |-> r.text_diff_data,
     structural_changes |-> r.structural_changes, change_summary |-> r.change_summary,
     change_details |-> r.change_details, impact_analysis |-> r.impact_analysis,
     created_at |-> created_at]

\* compute_full_diff(old, new): the cached row if there is one, else the three
\* layers, INSERT, and a response built from the computed values (created_at
\* left at its default None).  Gives the table afterwards, the outcome and
\* the number of LLM calls made.
compute_full_diff(old_doc_id, new_doc_id, outcome, created_at) ==
    LET existing == _get_existing_diff(old_doc_id, new_doc_id)
        semantic == _compute_semantic_diff(outcome # "llm_fails")
        row == [diff_id |-> <<old_doc_id, new_doc_id>>,
                old_version_id |-> old_doc_id, new_version_id |-> new_doc_id,
                text_diff_data |-> _compute_text_diff(old_doc_id, new_doc_id),
                structural_changes |-> _compute_structural_diff(old_doc_id, new_doc_id),
                change_summary |-> semantic.change_summary,
                change_details |-> semantic.change_details,
                impact_analysis |-> semantic.impact_analysis,
                created_at |-> created_at]
    IN IF existing # {}
       THEN LET r == CHOOSE x \in existing : TRUE
            IN [table |-> version_diffs, outcome |-> "returned", llm_calls |-> 0,
                response |-> ResponseOf(r, r.created_at)]
       ELSE IF outcome = "store_fails"
       THEN [table |-> version_diffs, outcome |-> "raised", llm_calls |-> 1,
             response |-> ResponseOf(row, NULL)]
       ELSE [table |-> version_diffs \cup {row}, outcome |-> "returned", llm_calls |-> 1,
             response |-> ResponseOf(row, NULL)]

\* PUT /{doc_id}/link: both documents exist, then the link logic of the
\* pipeline (_link_version with its _mark_chunks_not_latest), then
\* compute_full_diff(parent_id, doc_id), a failure of which is logged
link_version(d, parent_id, qdrant_fails, es_fails, diff, created_at) ==
    /\ Exists(d)
    /\ Exists(parent_id)
    /\ documents' = _link_version(documents, d, parent_id)
    /\ LET ids == ChunkIdsOf(parent_id)
       IN /\ qdrant' = IF ids = {} \/ qdrant_fails THEN qdrant
                       ELSE set_payload(qdrant, ids, FALSE)
          /\ es' = IF ids = {} \/ es_fails THEN es
                   ELSE update_by_query(es, parent_id, FALSE)
    /\ version_diffs' = compute_full_diff(parent_id, d, diff, created_at).table
    /\ UNCHANGED <<chunks, run, deleted, call>>

\* The referential actions the documents.parent_version_id foreign key may
\* declare for the deletion of a referenced row.
OnDeleteActions == {"no_action", "set_null"}

\* (mutant) a delete that keeps the documents row
DeleteRow_keeps_row(docs, d) == docs

\* DELETE FROM documents WHERE doc_id = d, with ON DELETE SET NULL
DeleteRow(docs, d) ==
    [e \in DOMAIN docs \ {d} |->
        IF docs[e].parent_version_id = d
        THEN [docs[e] EXCEPT !.parent_version_id = NULL]
        ELSE docs[e]]

\* DELETE /{doc_id} and IngestionPipeline.delete_document.  fail: the store
\* call that raises ("select", "qdrant", "es", "pg") or "none"; a failure of the
\* object store is swallowed.  The DELETE of a row that is still referenced
\* raises under ON DELETE NO ACTION.
DeleteFromStores(d, fail, on_delete) ==
    /\ Exists(d)
    /\ fail = "qdrant" => ChunkIdsOf(d) # {}
    /\ LET ids == ChunkIdsOf(d)
           referenced == \E e \in DOMAIN documents : e # d /\ Parent(e) = d
           pg_raises == fail = "pg" \/ (referenced /\ on_delete = "no_action")
       IN /\ qdrant' = IF fail \in {"select", "qdrant"} THEN qdrant
                       ELSE {x \in qdrant : x.chunk_id \notin ids}
          /\ es' = IF fail \in {"select", "qdrant", "es"} THEN es
                   ELSE {x \in es : x.doc_id # d}
          /\ IF fail \in {"select", "qdrant", "es"} \/ pg_raises
             THEN UNCHANGED <<documents, chunks, deleted>>
             ELSE /\ documents' = DeleteRow(documents, d)
                  /\ chunks' = {x \in chunks : x.doc_id # d}
                  /\ deleted' = deleted \cup {d}
    /\ UNCHANGED <<run, version_diffs>>

delete_document(d, fail, on_delete) ==
    /\ DeleteFromStores(d, fail, on_delete)
    /\ UNCHANGED call

\* sequential ingestion without store failures, the LLM confirming one of the
\* candidates it was shown
IngestSeq(D, K, T, B, F) ==
    \/ \E d \in D, h \in NextHashes : Quiescent /\ Begin(d, h)
    \/ \E d \in DocIds : StepsBeforeVerdict(d, K, T, B)
    \/ \E d \in DocIds, newer \in BOOLEAN :
         \E m \in run[d].candidates : LlmMatch(d, m, newer, NULL)
    \/ \E d \in DocIds : StepsAfterVerdict(d, F)

\* ------- sequential ingestion over every shape of chunk list and summaries
NextChunks == IngestSeq(DocIds, 0..MaxChunks, 0..MaxTables, BOOLEAN, {FALSE})

SpecChunks == Init /\ [][NextChunks]_vars

\* ---------------------------- ingestion and the version API, one at a time
\* a manual link, offered while version numbers stay bounded
ManualLink(O, A) ==
    \E d \in DocIds, parent_id \in DocIds :
        /\ parent_id \in DOMAIN documents
        /\ documents[parent_id].version_number < MaxVersion
        /\ \E diff \in O, created_at \in A :
             link_version(d, parent_id, FALSE, FALSE, diff, created_at)

ApiOp ==
    \/ \E d \in DocIds, status \in valid_statuses : update_version_status(d, status, "none")
    \/ ManualLink({"ok"}, {NOW})
    \/ \E d \in DocIds, on_delete \in OnDeleteActions : delete_document(d, "none", on_delete)

NextApi ==
    \/ IngestSeq(1..MaxApiDocs, {1}, {0}, {TRUE}, {FALSE})
    \/ Quiescent /\ ApiOp

SpecApi == Init /\ [][NextApi]_vars

\* exactly one document of the chain of d is latest, and it is active
ChainInvariant ==
    \A d \in DOMAIN documents :
        \E l \in VersionChain(d) :
            /\ LatestIn(VersionChain(d)) = {l}
            /\ documents[l].version_status = "active"

\* C2: update_version_status, the manual link_version and delete_document each
\* preserve the version-chain invariant: exactly one document of every chain
\* has is_latest = true and version_status = active, all others is_latest = false.
C2_ApiPreservesChains == [][(ApiOp /\ ChainInvariant) => ChainInvariant']_vars

\* ------------------------------------- ingestion and manual links, in turn
NextLink ==
    \/ IngestSeq(DocIds, {1}, {0}, {TRUE}, {FALSE})
    \/ Quiescent /\ ManualLink({"ok"}, {NOW})

SpecLink == Init /\ [][NextLink]_vars

\* the documents reached from d by following parent_version_id n times or fewer
RECURSIVE Ancestors(_, _)
Ancestors(d, n) ==
    IF n = 0 \/ Parent(d) = NULL \/ Parent(d) \notin DOMAIN documents THEN {}
    ELSE {Parent(d)} \cup Ancestors(Parent(d), n - 1)

\* C4: after any sequence of ingestion-time links and manual link_version
\* calls the parent_version_id references form a graph without cycles: no
\* document is among its own ancestors.
C4_ParentGraphAcyclic ==
    \A d \in DOMAIN documents : d \notin Ancestors(d, MaxDocs)

\* ------------- ingestion and status changes with failing payload updates
SyncFailures == {"none", "qdrant", "es"}

NextStatus ==
    \/ IngestSeq(1..MaxApiDocs, {1}, {0}, {TRUE}, BOOLEAN)
    \/ \E d \in DocIds, status \in valid_statuses, fail \in SyncFailures :
         Quiescent /\ update_version_status(d, status, fail)

SpecStatus == Init /\ [][NextStatus]_vars

\* C8: when no ingestion is in flight, every chunk of an existing document
\* carries, in the vector store and in the lexical store, the is_latest flag
\* of its document.
C8_ChunkFlagsFollowDocument ==
    Quiescent =>
        \A x \in qdrant \cup es :
            x.doc_id \in DOMAIN documents => x.is_latest = documents[x.doc_id].is_latest

\* ------------------- ingestion with failing stages and delete_document
DeleteFailures == {"none", "select", "qdrant", "es", "pg"}

NextDelete ==
    \/ IngestSeq(DocIds, {1}, {0}, {TRUE}, {FALSE})
    \/ \E d \in DocIds : Failures(d)
    \/ \E d \in DocIds, fail \in DeleteFailures, on_delete \in OnDeleteActions :
         Quiescent /\ delete_document(d, fail, on_delete)

SpecDelete == Init /\ [][NextDelete]_vars

\* C7: when no ingestion is in flight, a ready document has as many rows in
\* the chunks table as points in the vector store and documents in the
\* lexical store.
C7_ReadyCountsAgree ==
    Quiescent =>
        \A d \in DOMAIN documents :
            documents[d].processing_status = "ready" =>
                /\ CountOf(chunks, d) = CountOf(qdrant, d)
                /\ CountOf(chunks, d) = CountOf(es, d)

\* C10: once delete_document(d) has returned normally, no document row, chunk
\* row, vector point or lexical document carries doc_id d.
C10_DeleteLeavesNothing ==
    \A d \in deleted :
        /\ d \notin DOMAIN documents
        /\ \A x \in chunks \cup qdrant \cup es : x.doc_id # d

\* ------------------------------------------ retrieval (hybrid_search.py)
\* RetrievedChunk built from a point payload or an index hit
RetrievedChunk(x) ==
    [chunk_id |-> x.chunk_id, doc_id |-> x.doc_id,
     chunk_index |-> x.chunk_index, chunk_type |-> x.chunk_type]

\* _vector_search: points with is_latest, of doc_id when one is given
_vector_search(doc_id) ==
    {RetrievedChunk(x) : x \in {y \in qdrant :
        y.is_latest /\ (doc_id # NULL => y.doc_id = doc_id)}}

\* _bm25_search: index hits with is_latest, of doc_id when one is given; a
\* failing es.search is logged and gives the empty list
_bm25_search(doc_id, es_fails) ==
    IF es_fails THEN {}
    ELSE {RetrievedChunk(x) : x \in {y \in es :
            y.is_latest /\ (doc_id # NULL => y.doc_id = doc_id)}}

\* _rrf_fusion: one entry per chunk_id, the vector result kept when both
\* searches return the chunk
_rrf_fusion(vector_results, bm25_results) ==
    vector_results \cup
        {c \in bm25_results : \A v \in vector_results : v.chunk_id # c.chunk_id}

\* the parameters of hybrid_search, and the keyword arguments its callers in
\* query.py and tools.py pass
hybrid_search_params == {"query", "doc_id", "top_k", "use_reranker"}
_run_retrieval_kwargs ==
    {"query", "metadata_filters", "top_k", "version_mode", "accessible_doc_ids"}

\* Python's binding of keyword arguments to a signature without **kwargs
Binds(kwargs, params) == kwargs \subseteq params

\* hybrid_search(query, doc_id): both searches, fusion; qdrant.search is
\* awaited outside any try block
hybrid_search(kwargs, doc_id, qdrant_fails, es_fails) ==
    IF ~Binds(kwargs, hybrid_search_params)
    THEN [outcome |-> "TypeError", chunks |-> {}]
    ELSE IF qdrant_fails
    THEN [outcome |-> "raised", chunks |-> {}]
    ELSE [outcome |-> "returned",
          chunks |-> _rrf_fusion(_vector_search(doc_id), _bm25_search(doc_id, es_fails))]

\* what get_accessible_doc_ids hands to the retrieval: None (no restriction)
\* or a list of doc_ids
AccessibleSets == [is_none : {TRUE}, ids : {{}}] \cup [is_none : {FALSE}, ids : SUBSET DocIds]

\* _run_retrieval / tool_search_documents: hybrid_search called with
\* accessible_doc_ids = S
Retrieve(S) ==
    /\ call' = [op |-> "retrieve", accessible_doc_ids |-> S, doc_id |-> NULL,
                qdrant_fails |-> FALSE, es_fails |-> FALSE,
                result |-> hybrid_search(_run_retrieval_kwargs, NULL, FALSE, FALSE)]
    /\ UNCHANGED <<documents, chunks, qdrant, es, run, deleted, version_diffs>>

\* hybrid_search called with the parameters it declares (query, doc_id)
Search(doc_id, qdrant_fails, es_fails) ==
    /\ call' = [op |-> "search", accessible_doc_ids |-> [is_none |-> TRUE, ids |-> {}],
                doc_id |-> doc_id, qdrant_fails |-> qdrant_fails, es_fails |-> es_fails,
                result |-> hybrid_search({"query", "doc_id"}, doc_id, qdrant_fails, es_fails)]
    /\ UNCHANGED <<documents, chunks, qdrant, es, run, deleted, version_diffs>>

NextSearch ==
    \/ IngestSeq(1..MaxApiDocs, {1}, {0}, {TRUE}, {FALSE})
    \/ \E S \in AccessibleSets : Quiescent /\ Retrieve(S)
    \/ \E doc_id \in DocIds \cup {NULL}, qdrant_fails, es_fails \in BOOLEAN :
         Quiescent /\ Search(doc_id, qdrant_fails, es_fails)

SpecSearch == Init /\ [][NextSearch]_vars

\* some document is ingested and searchable
SomeReady == \E d \in DOMAIN documents : documents[d].processing_status = "ready"

\* C11: with a ready document in the stores, hybrid_search called with an
\* accessible-document set S returns, and returns only chunks of documents in S
\* (none for the empty list); called with S = None it returns every latest
\* chunk of both stores.
C11_AccessibleFilter ==
    (call.op = "retrieve" /\ SomeReady) =>
        /\ call.result.outcome = "returned"
        /\ ~call.accessible_doc_ids.is_none =>
              \A c \in call.result.chunks : c.doc_id \in call.accessible_doc_ids.ids
        /\ call.accessible_doc_ids.is_none =>
              call.result.chunks = _rrf_fusion(_vector_search(NULL), _bm25_search(NULL, FALSE))

\* C18: with a ready document in the stores, when exactly one of the two
\* searches of hybrid_search fails, the call returns the results of the other
\* store.
C18_OneStoreFails ==
    (call.op = "search" /\ SomeReady /\ call.qdrant_fails # call.es_fails) =>
        /\ call.result.outcome = "returned"
        /\ call.result.chunks =
              IF call.qdrant_fails THEN _bm25_search(call.doc_id, FALSE)
              ELSE _vector_search(call.doc_id)

\* run d linked its upload as the older version of run[d].matched
LinkedAsOlder(d) ==
    /\ run[d].matched # NULL
    /\ ~run[d].new_is_newer
    /\ ~run[d].is_doc_latest
    /\ run[d].pc \in {"embedding", "store_qdrant", "store_es", "store_pg", "ready", "count", "done"}

\* C12: _link_as_older_version(U, E) gives U the previous parent of E, makes U
\* the parent of E and U superseded and not latest; of E only the parent
\* pointer changes, no third document and no stored chunk flag changes, and
\* the chunks of U are then written with is_latest = false.
C12_OlderLinkFrame ==
    [][\A d \in DocIds :
        /\ LinkOlder(d) =>
              LET E == run[d].matched
              IN /\ documents'[d].parent_version_id = documents[E].parent_version_id
                 /\ ~documents'[d].is_latest
                 /\ documents'[d].version_status = "superseded"
                 /\ documents'[E] = [documents[E] EXCEPT !.parent_version_id = d]
                 /\ \A o \in DOMAIN documents \ {d, E} : documents'[o] = documents[o]
                 /\ DOMAIN documents' = DOMAIN documents
                 /\ qdrant' = qdrant /\ es' = es /\ chunks' = chunks
                 /\ ~run'[d].is_doc_latest
        /\ (LinkedAsOlder(d) /\ (StoreQdrant(d) \/ StoreEs(d))) =>
              \A x \in qdrant' \cup es' : x.doc_id = d => ~x.is_latest
    ]_vars

\* a finished ingestion whose upload U was put between E and E's previous parent
C12_Witness ==
    \E U, E, O \in DOMAIN documents :
        /\ run[U].pc = "done" /\ LinkedAsOlder(U) /\ run[U].matched = E
        /\ Parent(E) = U /\ Parent(U) = O
        /\ documents[E].is_latest /\ ~documents[U].is_latest
        /\ \E x \in qdrant : x.doc_id = U /\ ~x.is_latest
        /\ \E x \in es : x.doc_id = U /\ ~x.is_latest

\* no run started after run d
LastRun(d) == \A e \in DocIds : e > d => run[e].pc = "idle"

\* C13: when version detection or linking raised inside
\* _detect_and_link_version, the upload is and ends as a fresh document
\* (is_latest, no parent, its chunks written with is_latest = true), and the
\* document the LLM had confirmed is still latest and active.
C13_DetectionFailureIsFresh ==
    \A d \in DOMAIN documents :
        (run[d].caught /\ (Active(d) \/ (run[d].pc = "done" /\ LastRun(d)))) =>
            /\ run[d].is_doc_latest
            /\ documents[d].is_latest
            /\ documents[d].parent_version_id = NULL
            /\ \A x \in qdrant \cup es : x.doc_id = d => x.is_latest
            /\ run[d].matched # NULL =>
                  /\ documents[run[d].matched].is_latest
                  /\ documents[run[d].matched].version_status = "active"

\* ------------------------------------------- diff calls (SpecDiff)
\* GET /{doc_id}/diff/{other_doc_id}: both documents exist, then
\* compute_full_diff(doc_id, other_doc_id)
get_version_diff(doc_id, other_doc_id, diff, created_at) ==
    /\ Exists(doc_id)
    /\ Exists(other_doc_id)
    /\ LET r == compute_full_diff(doc_id, other_doc_id, diff, created_at)
       IN /\ version_diffs' = r.table
          /\ call' = [op |-> "diff", old |-> doc_id, new |-> other_doc_id,
                      semantic |-> diff, outcome |-> r.outcome,
                      llm_calls |-> r.llm_calls, response |-> r.response]
    /\ UNCHANGED <<documents, chunks, qdrant, es, run, deleted>>

\* the methods DiffEngine defines
DiffEngineMethods ==
    {"compute_full_diff", "_compute_text_diff", "_parse_diff_changes",
     "_compute_structural_diff", "_compute_semantic_diff", "_group_chunks_by_section",
     "_load_text_chunks", "_load_doc_metadata", "_get_existing_diff", "_store_diff"}

\* tool_compare_versions: the observation built from a cached row of the pair
\* (either direction, the row fetchone happens to give), else the call of
\* diff_engine.compute_diff, whose exception becomes the observation
tool_compare_versions(doc_id, other_doc_id) ==
    LET rows == {r \in version_diffs :
                   \/ r.old_version_id = doc_id /\ r.new_version_id = other_doc_id
                   \/ r.old_version_id = other_doc_id /\ r.new_version_id = doc_id}
    IN /\ \/ \E r \in rows :
               call' = [op |-> "compare_versions", old |-> doc_id, new |-> other_doc_id,
                        cached |-> Cardinality(rows),
                        observation |-> <<r.change_summary, r.change_details, r.impact_analysis>>]
          \/ /\ rows = {}
             /\ call' = [op |-> "compare_versions", old |-> doc_id, new |-> other_doc_id,
                         cached |-> 0,
                         observation |-> IF "compute_diff" \in DiffEngineMethods
                                         THEN <<"computed">>
                                         ELSE <<"compare failed: AttributeError">>]
       /\ UNCHANGED <<documents, chunks, qdrant, es, run, deleted, version_diffs>>

NextDiff ==
    \/ IngestSeq(1..MaxApiDocs, {1}, {0}, {TRUE}, {FALSE})
    \/ \E a, b \in DocIds, diff \in DiffOutcomes, created_at \in CreatedAtDefaults :
         Quiescent /\ get_version_diff(a, b, diff, created_at)
    \/ \E a, b \in DocIds : Quiescent /\ tool_compare_versions(a, b)

SpecDiff == Init /\ [][NextDiff]_vars

\* C14: a compute_full_diff(A, B) that follows a returned one of the same pair
\* returns the same payload (diff_id, both diff layers, summary, details,
\* impact analysis, creation timestamp), makes no LLM call and inserts no
\* row; a compare_versions(A, B) that follows one of the same pair, with one
\* cached row at most, returns the same observation.
C14_DiffIdempotent ==
    [][\A a, b \in DocIds :
        /\ ( /\ call.op = "diff" /\ call.old = a /\ call.new = b
             /\ call.outcome = "returned"
             /\ \E diff \in DiffOutcomes, created_at \in CreatedAtDefaults :
                   get_version_diff(a, b, diff, created_at) ) =>
               /\ call'.outcome = "returned"
               /\ call'.response = call.response
               /\ call'.llm_calls = 0
               /\ version_diffs' = version_diffs
        /\ ( /\ call.op = "compare_versions" /\ call.old = a /\ call.new = b
             /\ call.cached <= 1
             /\ tool_compare_versions(a, b) ) =>
               call'.observation = call.observation
    ]_vars

\* C15: after a compute_full_diff whose semantic LLM call failed, the pair has
\* a persisted row with the textual and structural layers and with an empty
\* change summary, an empty change-detail list and an empty impact analysis.
C15_LlmFailurePersistsLayers ==
    (call.op = "diff" /\ call.semantic = "llm_fails" /\ call.llm_calls = 1) =>
        \E r \in version_diffs :
            /\ r.old_version_id = call.old /\ r.new_version_id = call.new
            /\ r.text_diff_data = _compute_text_diff(call.old, call.new)
            /\ r.structural_changes = _compute_structural_diff(call.old, call.new)
            /\ r.change_summary = ""
            /\ r.change_details = <<>>
            /\ r.impact_analysis = ""

\* --------------------------------- ingest, delete, ingest again (SpecReingest)
\* delete_document of the document the last ingestion produced, remembering
\* what that ingestion was given and what it recorded
DeleteIngested(d, on_delete) ==
    /\ run[d].pc = "done"
    /\ Live(d)
    /\ Exists(d)
    /\ documents[d].processing_status = "ready"
    /\ DeleteFromStores(d, "none", on_delete)
    /\ call' = [op |-> "deleted", doc_id |-> d,
                file_hash |-> documents[d].file_hash,
                outputs |-> run[d].chunks,
                chunk_count |-> documents[d].chunk_count,
                returned |-> ~(on_delete = "no_action"
                               /\ \E e \in DOMAIN documents : e # d /\ Parent(e) = d)]

NextReingest ==
    \/ IngestSeq(DocIds, {0, 1}, {0}, BOOLEAN, {FALSE})
    \/ \E d \in DocIds, on_delete \in OnDeleteActions :
         Quiescent /\ DeleteIngested(d, on_delete)

SpecReingest == Init /\ [][NextReingest]_vars

\* the run that follows the delete ingests the bytes of the deleted document
Reingests(d) ==
    /\ call.op = "deleted"
    /\ call.returned
    /\ d = call.doc_id + 1
    /\ Live(d)
    /\ run[d].file_hash = call.file_hash

\* C16: after an ingestion, a delete_document of its document that returned
\* and an ingestion of the same bytes, the second ingestion is not refused as
\* a duplicate, and when parser, chunker and summarizer gave it the outputs
\* of the first it ends with a ready document of the same chunk count.
C16_ReingestAfterDelete ==
    \A d \in DocIds :
        Reingests(d) =>
            /\ run[d].pc # "failed"
            /\ (run[d].pc = "done" /\ run[d].chunks = call.outputs) =>
                  /\ Exists(d)
                  /\ documents[d].processing_status = "ready"
                  /\ documents[d].chunk_count = call.chunk_count

C16_Witness ==
    \E d \in DocIds :
        /\ Reingests(d)
        /\ run[d].pc = "done"
        /\ run[d].chunks = call.outputs
        /\ Len(run[d].chunks) = 3
        /\ documents[d].chunk_count = 3

\* ------------------------------------------ router and /query (SpecAsk)
\* the filter keys of a request that the model follows, the value a caller
\* supplies and the values the router LLM infers (None included)
FilterKeys == {"doc_id", "doc_type"}
CallerValue == 2
InferredValues == {NULL, 1}
Filters(V) == UNION {[K -> V] : K \in SUBSET FilterKeys}
NoFilters == CHOOSE f \in Filters({NULL}) : DOMAIN f = {}

\* dict.update: the entries of b over those of a
Update(a, b) ==
    [k \in DOMAIN a \cup DOMAIN b |-> IF k \in DOMAIN b THEN b[k] ELSE a[k]]

\* {k: v for k, v in f.items() if v is not None}
DropNone(f) == [k \in {x \in DOMAIN f : f[x] # NULL} |-> f[k]]

\* the JSON replies of the router LLM; "absent": the key is missing, "null"
\* and "other": a value that is no route; ok = FALSE: the call or the parse
\* raises
Routes == {"simple_rag", "enhanced_rag", "agent"}
QueryTypes == {"factual", "summary", "comparison", "version_diff", "complex_analysis"}
Replies ==
    [ok : {TRUE}, route : Routes \cup {"absent", "null", "other"},
     query_type : QueryTypes \cup {"absent"}, needs_multi_doc : BOOLEAN,
     metadata_filters : Filters(InferredValues)]
    \cup [ok : {FALSE}, route : {"absent"}, query_type : {"absent"},
          needs_multi_doc : {FALSE}, metadata_filters : {<<>>}]

\* res.get(key, default)
Get(value, default) == IF value = "absent" THEN default ELSE value

\* route_query
route_query(user_filters, res) ==
    IF ~res.ok
    THEN [query_type |-> "factual", metadata_filters |-> user_filters,
          needs_multi_doc |-> FALSE, route |-> "simple_rag"]
    ELSE LET metadata_filters == DropNone(Update(res.metadata_filters, user_filters))
             route == Get(res.route, "simple_rag")
             query_type == Get(res.query_type, "factual")
         IN [query_type |-> query_type, metadata_filters |-> metadata_filters,
             needs_multi_doc |-> res.needs_multi_doc,
             route |-> IF route \in Routes THEN route
                       ELSE IF query_type \in {"complex_analysis", "version_diff"} THEN "agent"
                       ELSE IF query_type = "summary" /\ res.needs_multi_doc THEN "enhanced_rag"
                       ELSE IF query_type = "comparison" THEN "agent"
                       ELSE "simple_rag"]

\* _run_retrieval: hybrid_search for each search query (one at least), with
\* metadata_filters among the keyword arguments
_run_retrieval(metadata_filters) ==
    [filters |-> metadata_filters,
     result |-> hybrid_search(_run_retrieval_kwargs, NULL, FALSE, FALSE)]

\* POST /query: route, then for simple_rag and enhanced_rag the retrieval and
\* its retry; an exception of any step ends the request with status 500
ask_question(user_filters, res) ==
    LET plan == route_query(user_filters, res)
        first == _run_retrieval(plan.metadata_filters)
        retry == /\ first.result.outcome = "returned"
                 /\ first.result.chunks = {}
                 /\ DOMAIN plan.metadata_filters # {}
        retrievals == IF plan.route = "agent" THEN <<>>
                      ELSE IF retry THEN <<first, _run_retrieval(NoFilters)>>
                      ELSE <<first>>
    IN /\ call' = [op |-> "ask", user_filters |-> user_filters, reply |-> res,
                   plan |-> plan, retrievals |-> retrievals,
                   nothing_stored |-> qdrant = {} /\ es = {},
                   status |-> IF \E i \in 1..Len(retrievals) :
                                    retrievals[i].result.outcome # "returned"
                              THEN 500 ELSE 200]
       /\ UNCHANGED <<documents, chunks, qdrant, es, run, deleted, version_diffs>>

\* the replies that differ in route, query type and multi-document flag, and
\* those that differ in the inferred filters
RouteReplies == {res \in Replies : DOMAIN res.metadata_filters = {}}
FilterReplies ==
    {res \in Replies : /\ res.ok => res.route = "simple_rag" /\ res.query_type = "factual"
                       /\ ~res.needs_multi_doc}

NextAsk ==
    \/ IngestSeq(1..MaxApiDocs, {1}, {0}, {TRUE}, {FALSE})
    \/ \E res \in RouteReplies : Quiescent /\ ask_question(NoFilters, res)
    \/ \E user_filters \in Filters({CallerValue}), res \in FilterReplies :
         Quiescent /\ ask_question(user_filters, res)

SpecAsk == Init /\ [][NextAsk]_vars

\* C17: a request on a retrieval route whose plan has filters, made while no
\* chunk is stored (so that its retrieval finds nothing), retrieves twice: with
\* the plan's filters, then with the caller-supplied filters only; a request
\* whose plan has no filters retrieves once.
C17_RetryKeepsCallerFilters ==
    (call.op = "ask" /\ call.plan.route # "agent") =>
        IF call.nothing_stored /\ DOMAIN call.plan.metadata_filters # {}
        THEN /\ Len(call.retrievals) = 2
             /\ call.retrievals[1].filters = call.plan.metadata_filters
             /\ call.retrievals[2].filters = call.user_filters
        ELSE DOMAIN call.plan.metadata_filters = {} => Len(call.retrievals) = 1

\* C19: for a reply without a route field, the plan's route is agent for the
\* query types complex_analysis, version_diff and comparison, enhanced_rag for
\* a summary that needs several documents, and simple_rag otherwise.
C19_RouteDerivedWhenAbsent ==
    (call.op = "ask" /\ call.reply.ok /\ call.reply.route = "absent") =>
        call.plan.route =
            IF call.reply.query_type \in {"complex_analysis", "version_diff", "comparison"}
            THEN "agent"
            ELSE IF call.reply.query_type = "summary" /\ call.reply.needs_multi_doc
            THEN "enhanced_rag"
            ELSE "simple_rag"

\* ------------------------------------------ DocumentAgent.run (SpecAgent)
MAX_STEPS == 8

\* what a reasoning LLM call gives: an exception, text that is no JSON, JSON
\* that is no object, an object with final_answer, one without action, or one
\* naming a tool
LlmReplies == {"raises", "unparsable", "not_object", "final_answer", "no_action",
               "search_documents", "no_such_tool"}
TOOL_REGISTRY == {"search_documents"}

\* the frame of run: position, loop variable, the step list and the calls made
AgentFrame ==
    [op |-> "agent", pc |-> "llm", step_num |-> 1, steps |-> <<>>, action |-> "",
     llm_calls |-> 0, tool_calls |-> 0, forced_calls |-> 0,
     answer |-> "", route |-> ""]     \* of the AgentResponse returned

AgentRunning == call.op = "agent" /\ call.pc \in {"llm", "tool", "force"}

\* (mutant) a loop that does not advance
range_next_stays(step_num) == step_num

\* for step_num in range(1, MAX_STEPS + 1): the next value of the loop variable
range_next(step_num) == step_num + 1

\* DocumentAgent.run is called
DocumentAgent_run ==
    /\ ~AgentRunning
    /\ call' = AgentFrame
    /\ UNCHANGED <<documents, chunks, qdrant, es, run, deleted, version_diffs>>

\* _parse_llm_response: json.loads of the text (or of the object found in it);
\* None when nothing parses, and whatever json.loads gave otherwise
_parse_llm_response(reply) ==
    IF reply = "unparsable" THEN "None"
    ELSE IF reply = "not_object" THEN "not_dict"
    ELSE "dict"

\* one pass of the loop up to the tool call: llm.generate, _parse_llm_response,
\* parsed.get("thought") and the branches on the parsed object
Reason(reply) ==
    /\ call.op = "agent" /\ call.pc = "llm"
    /\ LET made == [call EXCEPT !.llm_calls = @ + 1]
       IN call' =
            IF reply = "raises"
            THEN [made EXCEPT !.pc = "returned", !.answer = "error", !.route = "agent"]
            ELSE IF _parse_llm_response(reply) = "None"
            THEN [made EXCEPT !.pc = "returned", !.answer = "raw_text", !.route = "agent"]
            ELSE IF _parse_llm_response(reply) = "not_dict"
            THEN [made EXCEPT !.pc = "raised"]      \* AttributeError of parsed.get
            ELSE IF reply = "final_answer"
            THEN [made EXCEPT !.pc = "returned", !.answer = "final_answer",
                              !.route = "agent",
                              !.steps = Append(@, [step_number |-> call.step_num,
                                                   action |-> "final_answer"])]
            ELSE IF reply = "no_action"
            THEN [made EXCEPT !.pc = "returned", !.answer = "error", !.route = "agent"]
            ELSE [made EXCEPT !.pc = "tool", !.action = reply]
    /\ UNCHANGED <<documents, chunks, qdrant, es, run, deleted, version_diffs>>

\* execute_tool and the rest of the pass: the step is appended and the loop
\* goes on, or leaves to _force_final_answer after MAX_STEPS passes; an
\* exception of the tool call leaves run
execute_tool(raises) ==
    /\ call.op = "agent" /\ call.pc = "tool"
    /\ raises => call.action \in TOOL_REGISTRY
    /\ LET made == [call EXCEPT !.tool_calls = @ + 1, !.action = ""]
       IN call' =
            IF raises THEN [made EXCEPT !.pc = "raised"]
            ELSE [made EXCEPT
                    !.steps = Append(@, [step_number |-> call.step_num,
                                         action |-> call.action]),
                    !.step_num = range_next(call.step_num),
                    !.pc = IF range_next(call.step_num) = MAX_STEPS + 1
                           THEN "force" ELSE "llm"]
    /\ UNCHANGED <<documents, chunks, qdrant, es, run, deleted, version_diffs>>

\* _force_final_answer: one more llm.generate, whose exception becomes the answer
_force_final_answer ==
    /\ call.op = "agent" /\ call.pc = "force"
    /\ call' = [call EXCEPT !.forced_calls = @ + 1, !.pc = "returned",
                            !.answer = "forced", !.route = "agent"]
    /\ UNCHANGED <<documents, chunks, qdrant, es, run, deleted, version_diffs>>

NextAgent ==
    \/ DocumentAgent_run
    \/ \E reply \in LlmReplies : Reason(reply)
    \/ \E raises \in BOOLEAN : execute_tool(raises)
    \/ _force_final_answer

SpecAgent == Init /\ [][NextAgent]_vars

\* C20: at every point of DocumentAgent.run at most 8 reasoning LLM calls and
\* at most 8 tool executions have been made and the step list has at most 8
\* entries; at most one forced-final LLM call is made, and only after 8 steps
\* that each ended in a tool call; while the run goes on its calls are counted
\* by its position in the loop, so that it ends within 17 calls.
C20_AgentBounded ==
    call.op = "agent" =>
        /\ call.llm_calls <= 8
        /\ call.tool_calls <= 8
        /\ Len(call.steps) <= 8
        /\ call.forced_calls <= 1
        /\ (call.pc = "force" \/ call.forced_calls = 1) =>
              /\ call.llm_calls = 8
              /\ call.tool_calls = 8
              /\ Len(call.steps) = 8
              /\ \A i \in 1..8 : call.steps[i].action # "final_answer"
        /\ call.pc = "llm" => call.llm_calls = call.step_num - 1 /\ call.step_num <= 8
        /\ call.pc = "tool" => call.llm_calls = call.step_num /\ call.step_num <= 8
        /\ call.pc \in {"llm", "tool"} => call.tool_calls = call.step_num - 1

C20_Witness ==
    /\ call.op = "agent"
    /\ call.pc = "returned"
    /\ call.forced_calls = 1
    /\ call.llm_calls = 8
    /\ call.tool_calls = 8
    /\ Len(call.steps) = 8

\* C21: whatever text the LLM returns at a step, the pass does not raise, a
\* response it returns has route agent, and for text that gives no step
\* object (no JSON, or JSON that is no object) the response is the raw text.
C21_AnyReplyAnswered ==
    [][\A reply \in LlmReplies \ {"raises"} :
        Reason(reply) =>
            /\ call'.pc # "raised"
            /\ call'.pc = "returned" => call'.route = "agent"
            /\ reply \in {"unparsable", "not_object"} =>
                  call'.pc = "returned" /\ call'.answer = "raw_text"
    ]_vars

\* --------------------------------- POST /query/stream (SpecStream)
\* the keyword arguments ask_question_stream passes to hybrid_search
stream_retrieval_kwargs == {"query", "metadata_filters", "top_k", "version_mode"}

\* an SSE line 'data: ...' by the type of its event, and the agent_step event
\* of an action
Event(type) == [type |-> type, action |-> ""]
StepEvent(action) == [type |-> "agent_step", action |-> action]

\* the frame of a streaming request: the SSE lines sent so far, the position
\* in run_stream and its loop variable
StreamFrame ==
    [op |-> "stream", pc |-> "llm", step_num |-> 1, action |-> "", sse |-> <<>>]

Streaming == call.op = "stream" /\ call.pc \in {"llm", "tool", "force"}

\* generate_stream of the retrieval routes: route_info, sources, the tokens,
\* then [DONE]; an exception of the generation is answered by an error event
generate_stream(llm_raises) ==
    IF llm_raises THEN <<Event("route_info"), Event("sources"), Event("error")>>
    ELSE <<Event("route_info"), Event("sources"), Event("token"), Event("[DONE]")>>

\* ask_question_stream: route_query, then agent_stream for the agent route, and
\* for the other routes the retrieval followed by empty_stream or
\* generate_stream; an exception before the StreamingResponse is built ends
\* the request with status 500 and no SSE line
ask_question_stream(res, llm_raises) ==
    /\ ~Streaming
    /\ LET plan == route_query(NoFilters, res)
           found == hybrid_search(stream_retrieval_kwargs, NULL, FALSE, FALSE)
       IN call' =
            IF plan.route = "agent"
            THEN [StreamFrame EXCEPT !.sse = <<Event("route_info")>>]
            ELSE IF found.outcome # "returned"
            THEN [StreamFrame EXCEPT !.pc = "http_500"]
            ELSE IF found.chunks = {}
            THEN [StreamFrame EXCEPT !.pc = "closed",
                                     !.sse = <<Event("route_info"), Event("token"), Event("[DONE]")>>]
            ELSE [StreamFrame EXCEPT !.pc = "closed", !.sse = generate_stream(llm_raises)]
    /\ UNCHANGED <<documents, chunks, qdrant, es, run, deleted, version_diffs>>

\* agent_stream forwarding the events of one pass of run_stream up to the tool
\* call; after a done event it sends [DONE]; an exception of run_stream is
\* answered by an error event and [DONE]
StreamReason(reply) ==
    /\ call.op = "stream" /\ call.pc = "llm"
    /\ call' =
         IF reply = "raises"
         THEN [call EXCEPT !.pc = "closed", !.sse = @ \o <<Event("error")>>]
         ELSE IF _parse_llm_response(reply) = "None"
         THEN [call EXCEPT !.pc = "closed", !.sse = @ \o <<Event("token"), Event("done"), Event("[DONE]")>>]
         ELSE IF _parse_llm_response(reply) = "not_dict"
         THEN [call EXCEPT !.pc = "closed", !.sse = @ \o <<Event("error"), Event("[DONE]")>>]
         ELSE IF reply = "final_answer"
         THEN [call EXCEPT !.pc = "closed",
                           !.sse = @ \o <<StepEvent("final_answer"), Event("token"),
                                          Event("done"), Event("[DONE]")>>]
         ELSE IF reply = "no_action"
         THEN [call EXCEPT !.pc = "closed", !.sse = @ \o <<Event("error")>>]
         ELSE [call EXCEPT !.pc = "tool", !.action = reply,
                           !.sse = @ \o <<StepEvent(reply)>>]
    /\ UNCHANGED <<documents, chunks, qdrant, es, run, deleted, version_diffs>>

\* the tool call of a pass of run_stream and the step event after it
StreamTool(raises) ==
    /\ call.op = "stream" /\ call.pc = "tool"
    /\ raises => call.action \in TOOL_REGISTRY
    /\ call' =
         IF raises
         THEN [call EXCEPT !.pc = "closed", !.action = "", !.sse = @ \o <<Event("error"), Event("[DONE]")>>]
         ELSE [call EXCEPT !.action = "",
                           !.sse = @ \o <<StepEvent(call.action)>>,
                           !.step_num = range_next(call.step_num),
                           !.pc = IF range_next(call.step_num) = MAX_STEPS + 1
                                  THEN "force" ELSE "llm"]
    /\ UNCHANGED <<documents, chunks, qdrant, es, run, deleted, version_diffs>>

\* run_stream after MAX_STEPS passes: a step event, the streamed answer or an
\* error event, then done
StreamForce(raises) ==
    /\ call.op = "stream" /\ call.pc = "force"
    /\ call' = [call EXCEPT !.pc = "closed",
                            !.sse = @ \o <<StepEvent("force_final_answer"),
                                           IF raises THEN Event("error") ELSE Event("token"),
                                           Event("done"), Event("[DONE]")>>]
    /\ UNCHANGED <<documents, chunks, qdrant, es, run, deleted, version_diffs>>

NextStream ==
    \/ \E res \in RouteReplies, llm_raises \in BOOLEAN : ask_question_stream(res, llm_raises)
    \/ \E reply \in LlmReplies : StreamReason(reply)
    \/ \E raises \in BOOLEAN : StreamTool(raises)
    \/ \E raises \in BOOLEAN : StreamForce(raises)

SpecStream == Init /\ [][NextStream]_vars

\* C22: every SSE response of the streaming endpoint that has ended has
\* 'data: [DONE]' as its last line.
C22_StreamEndsWithDone ==
    (call.op = "stream" /\ call.pc = "closed") =>
        /\ call.sse # <<>>
        /\ call.sse[Len(call.sse)] = Event("[DONE]")

\* -------------------------------------------------- chunker (SpecChunker)
\* settings.chunk_target_size, chunk_max_size, chunk_overlap (500, 800, 50),
\* scaled down; the longest section text followed
chunk_target_size == 3
chunk_max_size == 4
chunk_overlap == 1
MaxSectionTokens == 6

\* A text is the sequence of its tokens: a word, a newline, a double newline.
TextTokens == {"w", "nl", "nlnl"}
IsNewline(t) == t \in {"nl", "nlnl"}

\* count_tokens: the length of the encoding
count_tokens(text) == Len(text)

\* the newline characters of a run of newline tokens
RECURSIVE NewlinesIn(_)
NewlinesIn(text) ==
    IF text = <<>> THEN 0
    ELSE (IF Head(text) = "nlnl" THEN 2 ELSE 1) + NewlinesIn(Tail(text))

\* the length of the run of newline tokens at the head of a text
RECURSIVE RunLen(_)
RunLen(text) ==
    IF text # <<>> /\ IsNewline(Head(text)) THEN 1 + RunLen(Tail(text)) ELSE 0

\* str.strip
RECURSIVE rstrip(_)
rstrip(text) ==
    IF text # <<>> /\ IsNewline(text[Len(text)])
    THEN rstrip(SubSeq(text, 1, Len(text) - 1)) ELSE text
strip(text) == rstrip(SubSeq(text, RunLen(text) + 1, Len(text)))

\* sep.join(parts)
RECURSIVE Join(_, _)
Join(parts, sep) ==
    IF parts = <<>> THEN <<>>
    ELSE IF Len(parts) = 1 THEN parts[1]
    ELSE parts[1] \o <<sep>> \o Join(Tail(parts), sep)

\* re.split(r"\n\s*\n", text): a run of whitespace with two newlines or more
\* separates two parts, a single newline stays in its part
RECURSIVE re_split(_, _)
re_split(text, cur) ==
    IF text = <<>> THEN <<cur>>
    ELSE IF IsNewline(Head(text))
    THEN LET n == RunLen(text)
             rest == SubSeq(text, n + 1, Len(text))
         IN IF NewlinesIn(SubSeq(text, 1, n)) >= 2
            THEN <<cur>> \o re_split(rest, <<>>)
            ELSE re_split(rest, cur \o SubSeq(text, 1, n))
    ELSE re_split(Tail(text), Append(cur, Head(text)))

\* part.split("\n") of a part without double newlines
RECURSIVE split_lines(_, _)
split_lines(text, cur) ==
    IF text = <<>> THEN <<cur>>
    ELSE IF Head(text) = "nl" THEN <<cur>> \o split_lines(Tail(text), <<>>)
    ELSE split_lines(Tail(text), Append(cur, Head(text)))

\* the loop over the lines of a part longer than chunk_max_size: lines are
\* grouped up to chunk_target_size, a line that is too long alone is a
\* paragraph of its own
RECURSIVE GroupLines(_, _, _)
GroupLines(lines, current_group, paragraphs) ==
    IF lines = <<>>
    THEN IF current_group # <<>> THEN Append(paragraphs, Join(current_group, "nl"))
         ELSE paragraphs
    ELSE LET group == Append(current_group, Head(lines))
         IN IF count_tokens(Join(group, "nl")) > chunk_target_size
            THEN IF Len(group) > 1
                 THEN GroupLines(Tail(lines), <<Head(lines)>>,
                                 Append(paragraphs, Join(current_group, "nl")))
                 ELSE GroupLines(Tail(lines), <<>>, Append(paragraphs, Head(lines)))
            ELSE GroupLines(Tail(lines), group, paragraphs)

RECURSIVE SplitParts(_)
SplitParts(raw_parts) ==
    IF raw_parts = <<>> THEN <<>>
    ELSE LET part == strip(Head(raw_parts))
         IN (IF part = <<>> THEN <<>>
             ELSE IF count_tokens(part) > chunk_max_size
             THEN GroupLines(split_lines(part, <<>>), <<>>, <<>>)
             ELSE <<part>>) \o SplitParts(Tail(raw_parts))

_split_into_paragraphs(text) == SplitParts(re_split(text, <<>>))

\* the loop of _extract_overlap over reversed(parts)
RECURSIVE OverlapParts(_, _, _, _)
OverlapParts(parts, overlap_parts, total_tokens, target_overlap_tokens) ==
    IF parts = <<>> THEN overlap_parts
    ELSE LET part == parts[Len(parts)]
         IN IF total_tokens + count_tokens(part) > target_overlap_tokens
               /\ overlap_parts # <<>>
            THEN overlap_parts
            ELSE OverlapParts(SubSeq(parts, 1, Len(parts) - 1), <<part>> \o overlap_parts,
                              total_tokens + count_tokens(part), target_overlap_tokens)

_extract_overlap(parts, target_overlap_tokens) ==
    IF parts = <<>> \/ target_overlap_tokens <= 0 THEN <<>>
    ELSE LET result == Join(OverlapParts(parts, <<>>, 0, target_overlap_tokens), "nlnl")
         IN IF count_tokens(result) > target_overlap_tokens * 2
            THEN SubSeq(result, Len(result) - target_overlap_tokens + 1, Len(result))
            ELSE result

\* Chunk(...) of type text
TextChunk(chunk_index, content) ==
    [chunk_index |-> chunk_index, chunk_type |-> "text", content |-> content,
     token_count |-> count_tokens(content)]

\* the content of the chunk saved from current_parts
ChunkContent(current_parts, overlap_text, chunk_idx, start_index) ==
    IF overlap_text # <<>> /\ chunk_idx > start_index
    THEN overlap_text \o <<"nlnl">> \o Join(current_parts, "nlnl")
    ELSE Join(current_parts, "nlnl")

\* the loop of _merge_paragraphs_into_chunks and the chunk saved after it
RECURSIVE MergeLoop(_, _, _, _, _, _, _)
MergeLoop(paragraphs, chunks_, current_parts, current_tokens, chunk_idx, overlap_text, start_index) ==
    IF paragraphs = <<>>
    THEN IF current_parts # <<>>
         THEN Append(chunks_, TextChunk(chunk_idx,
                        ChunkContent(current_parts, overlap_text, chunk_idx, start_index)))
         ELSE chunks_
    ELSE LET para == Head(paragraphs)
             para_tokens == count_tokens(para)
         IN IF current_tokens + para_tokens > chunk_max_size /\ current_parts # <<>>
            THEN MergeLoop(Tail(paragraphs),
                           Append(chunks_, TextChunk(chunk_idx,
                               ChunkContent(current_parts, overlap_text, chunk_idx, start_index))),
                           <<para>>, para_tokens, chunk_idx + 1,
                           _extract_overlap(current_parts, chunk_overlap), start_index)
            ELSE MergeLoop(Tail(paragraphs), chunks_, Append(current_parts, para),
                           current_tokens + para_tokens, chunk_idx, overlap_text, start_index)

_merge_paragraphs_into_chunks(paragraphs, start_index) ==
    MergeLoop(paragraphs, <<>>, <<>>, 0, start_index, <<>>, start_index)

_chunk_section(full_text, start_index) ==
    IF count_tokens(full_text) <= chunk_max_size /\ count_tokens(full_text) > 0
    THEN <<TextChunk(start_index, full_text)>>
    ELSE IF strip(full_text) = <<>> THEN <<>>
    ELSE _merge_paragraphs_into_chunks(_split_into_paragraphs(full_text), start_index)

\* the parser gives one more token of a section's text; the chunks are those
\* _chunk_section makes of the text so far
ParseSectionToken(t) ==
    /\ call.op = "chunk_section" => Len(call.full_text) < MaxSectionTokens
    /\ LET full_text == IF call.op = "chunk_section" THEN Append(call.full_text, t)
                        ELSE <<t>>
       IN call' = [op |-> "chunk_section", full_text |-> full_text,
                   chunks |-> _chunk_section(full_text, 0)]
    /\ UNCHANGED <<documents, chunks, qdrant, es, run, deleted, version_diffs>>

NextChunker == \E t \in TextTokens : ParseSectionToken(t)

SpecChunker == Init /\ [][NextChunker]_vars

\* s is a non-empty suffix of a and a prefix of b
OverlapSuffix(a, b) ==
    \E n \in 1..Len(a) :
        /\ n <= Len(b)
        /\ SubSeq(a, Len(a) - n + 1, Len(a)) = SubSeq(b, 1, n)

\* C23: a section of 1..chunk_max_size tokens gives exactly one chunk; a
\* section of chunk_max_size + 1 tokens gives two chunks at least, the second
\* beginning with a suffix of the first.
C23_SectionSplitAtMaxSize ==
    call.op = "chunk_section" =>
        /\ count_tokens(call.full_text) <= chunk_max_size => Len(call.chunks) = 1
        /\ count_tokens(call.full_text) = chunk_max_size + 1 =>
              /\ Len(call.chunks) >= 2
              /\ OverlapSuffix(call.chunks[1].content, call.chunks[2].content)

\* ---------------------------------------- version history (SpecHistory)
\* What a doc_id read from a row is in Python: the str of the request, or the
\* UUID object the driver builds for a uuid column.  A value is <<type, id>>;
\* values of different types are not equal.
IdColumnTypes == {"str", "UUID"}
RowId(d, id_type) == <<id_type, d>>

\* the elements of a set of doc_ids as a list
RECURSIVE fetchall(_)
fetchall(S) == IF S = {} THEN <<>> ELSE <<Min(S)>> \o fetchall(S \ {Min(S)})

ChildrenOf(d) == {e \in DOMAIN documents : Parent(e) = d}

\* collect(current_id) of tool_get_version_history: the row of current_id is
\* listed, then its parent and its children are collected; st holds visited
\* and versions
RECURSIVE collect(_, _, _), collect_children(_, _, _)
collect(current_id, st, id_type) ==
    IF current_id \in st.visited THEN st
    ELSE LET d == current_id[2]
             seen == [st EXCEPT !.visited = @ \cup {current_id}]
         IN IF d \notin DOMAIN documents THEN seen
            ELSE LET listed == [seen EXCEPT !.versions = Append(@, d)]
                     up == IF Parent(d) # NULL
                           THEN collect(RowId(Parent(d), id_type), listed, id_type)
                           ELSE listed
                 IN collect_children(fetchall(ChildrenOf(d)), up, id_type)
collect_children(children, st, id_type) ==
    IF children = <<>> THEN st
    ELSE collect_children(Tail(children),
                          collect(RowId(Head(children), id_type), st, id_type), id_type)

\* _collect_ancestors: the loop up the parent links, ids passed through str()
RECURSIVE _collect_ancestors(_, _)
_collect_ancestors(current_id, st) ==
    IF current_id = NULL \/ current_id \in st.visited THEN st
    ELSE LET seen == [st EXCEPT !.visited = @ \cup {current_id}]
         IN IF current_id \notin DOMAIN documents THEN seen
            ELSE _collect_ancestors(Parent(current_id),
                                    [seen EXCEPT !.versions = Append(@, current_id)])

\* the first loop of _collect_descendants: up from doc_id until a document
\* without parent or a visited one
RECURSIVE FindRoot(_, _)
FindRoot(root_id, visited) ==
    IF root_id \in DOMAIN documents /\ Parent(root_id) # NULL
    THEN IF Parent(root_id) \in visited THEN Parent(root_id)
         ELSE FindRoot(Parent(root_id), visited)
    ELSE root_id

\* the second loop: breadth first from the root, children that are not
\* visited are listed and queued
RECURSIVE Bfs(_, _), BfsRows(_, _, _)
Bfs(queue, st) ==
    IF queue = <<>> THEN st
    ELSE BfsRows(fetchall(ChildrenOf(Head(queue))), Tail(queue), st)
BfsRows(rows, queue, st) ==
    IF rows = <<>> THEN Bfs(queue, st)
    ELSE IF Head(rows) \notin st.visited
    THEN BfsRows(Tail(rows), Append(queue, Head(rows)),
                 [visited |-> st.visited \cup {Head(rows)},
                  versions |-> Append(st.versions, Head(rows))])
    ELSE BfsRows(Tail(rows), queue, st)

_collect_descendants(doc_id, st) == Bfs(<<FindRoot(doc_id, st.visited)>>, st)

\* every document of the chain has one child at most and the chain has a first
\* document
LinearChain(S) ==
    /\ \A d \in S : Cardinality(ChildrenOf(d)) <= 1
    /\ \E d \in S : Parent(d) = NULL

\* the agent tool get_version_history
tool_get_version_history(doc_id, id_type) ==
    /\ call' = [op |-> "history", by |-> "tool", doc_id |-> doc_id, id_type |-> id_type,
                chain |-> VersionChain(doc_id), linear |-> LinearChain(VersionChain(doc_id)),
                versions |-> collect(RowId(doc_id, "str"),
                                     [visited |-> {}, versions |-> <<>>], id_type).versions]
    /\ UNCHANGED <<documents, chunks, qdrant, es, run, deleted, version_diffs>>

\* GET /{doc_id}/history
get_version_history(doc_id) ==
    /\ Exists(doc_id)
    /\ LET up == _collect_ancestors(doc_id, [visited |-> {}, versions |-> <<>>])
           down == _collect_descendants(doc_id, up)
       IN call' = [op |-> "history", by |-> "endpoint", doc_id |-> doc_id,
                   id_type |-> "str",
                   chain |-> VersionChain(doc_id),
                   linear |-> LinearChain(VersionChain(doc_id)),
                   versions |-> IF doc_id \notin down.visited
                                THEN Append(down.versions, doc_id) ELSE down.versions]
    /\ UNCHANGED <<documents, chunks, qdrant, es, run, deleted, version_diffs>>

\* The history calls only read: they are followed on every table the writes
\* can leave, and the writes are not followed further after a read.
NextHistory ==
    \/ call = NoCall /\ IngestSeq(DocIds, {1}, {0}, {TRUE}, {FALSE})
    \/ \E d \in DocIds, parent_id \in DocIds :
         /\ call = NoCall /\ Quiescent
         /\ parent_id \in DOMAIN documents
         /\ documents[parent_id].version_number = 1
         /\ link_version(d, parent_id, FALSE, FALSE, "ok", NOW)
    \/ \E doc_id \in DocIds, id_type \in IdColumnTypes :
         Quiescent /\ Exists(doc_id) /\ tool_get_version_history(doc_id, id_type)
    \/ \E doc_id \in DocIds : Quiescent /\ get_version_history(doc_id)

SpecHistory == Init /\ [][NextHistory]_vars

\* how often d is listed
Listed(versions, d) == Cardinality({i \in 1..Len(versions) : versions[i] = d})

\* C24: the tool lists every document of the version chain of doc_id exactly
\* once, whichever member is queried and also when the parent links have a
\* cycle.
C24_ToolListsChainOnce ==
    (call.op = "history" /\ call.by = "tool") =>
        \A d \in DocIds : Listed(call.versions, d) = (IF d \in call.chain THEN 1 ELSE 0)

\* C25: for a linear chain and any member of it as doc_id, the endpoint lists
\* every document of the chain exactly once.
C25_EndpointListsChainOnce ==
    (call.op = "history" /\ call.by = "endpoint" /\ call.linear) =>
        \A d \in call.chain : Listed(call.versions, d) = 1

\* ------------------------------------------------ text diff (SpecTextDiff)
\* longest list of chunks of one version the diff is followed on
MaxDiffChunks == 2

\* section_path values of a chunk row: none, or a heading path
SectionPaths == {"", "A"}
\* content values of a chunk row, the empty string among them
Contents == {<<>>, <<"w">>, <<"w", "w">>}
DiffChunks == [section_path : SectionPaths, content : Contents]

\* c.get("section_path") or "(无章节)"
SectionKey(c) == IF c.section_path = "" THEN "(无章节)" ELSE c.section_path

\* OrderedDict.fromkeys: the keys in the order of their first occurrence
RECURSIVE fromkeys(_)
fromkeys(keys) ==
    IF keys = <<>> THEN <<>>
    ELSE LET front == fromkeys(SubSeq(keys, 1, Len(keys) - 1))
             last == keys[Len(keys)]
         IN IF \E i \in 1..Len(front) : front[i] = last THEN front
            ELSE Append(front, last)

\* the contents of the chunks of one section, in list order
RECURSIVE SectionTexts(_, _)
SectionTexts(chunk_list, sp) ==
    IF chunk_list = <<>> THEN <<>>
    ELSE (IF SectionKey(Head(chunk_list)) = sp THEN <<Head(chunk_list).content>>
          ELSE <<>>) \o SectionTexts(Tail(chunk_list), sp)

\* _group_chunks_by_section: section path -> "\n".join of its contents
_group_chunks_by_section(chunk_list) ==
    LET keys == fromkeys([i \in 1..Len(chunk_list) |-> SectionKey(chunk_list[i])])
    IN [keys |-> keys,
        text |-> [sp \in {keys[i] : i \in 1..Len(keys)} |->
                     Join(SectionTexts(chunk_list, sp), "nl")]]

\* dict.get(sp, ""): the text of the section, the empty string without it
SectionGet(sections, sp) ==
    IF sp \in DOMAIN sections.text THEN sections.text[sp] ELSE <<>>

\* the loop over all_section_paths: one entry for a section that is added,
\* deleted or modified, none for the others
RECURSIVE section_diffs(_, _, _)
section_diffs(paths, old_sections, new_sections) ==
    IF paths = <<>> THEN <<>>
    ELSE LET sp == Head(paths)
             old_text == SectionGet(old_sections, sp)
             new_text == SectionGet(new_sections, sp)
             entry ==
                 IF old_text = <<>> /\ new_text # <<>>
                     THEN <<[section_path |-> sp, status |-> "added"]>>
                 ELSE IF old_text # <<>> /\ new_text = <<>>
                     THEN <<[section_path |-> sp, status |-> "deleted"]>>
                 ELSE IF old_text # new_text
                     THEN <<[section_path |-> sp, status |-> "modified"]>>
                 ELSE <<>>
         IN entry \o section_diffs(Tail(paths), old_sections, new_sections)

CountStatus(diffs, status) ==
    Cardinality({i \in 1..Len(diffs) : diffs[i].status = status})

\* DiffEngine._compute_text_diff on two lists of chunk rows
text_diff_of(old_chunks, new_chunks) ==
    LET old_sections == _group_chunks_by_section(old_chunks)
        new_sections == _group_chunks_by_section(new_chunks)
        all_section_paths == fromkeys(old_sections.keys \o new_sections.keys)
        diffs == section_diffs(all_section_paths, old_sections, new_sections)
    IN [sections |-> diffs,
        stats |-> [added |-> CountStatus(diffs, "added"),
                   deleted |-> CountStatus(diffs, "deleted"),
                   modified |-> CountStatus(diffs, "modified"),
                   unchanged |-> Len(all_section_paths) - Len(diffs)]]

TextDiffFrame(old_chunks, new_chunks) ==
    [op |-> "text_diff", old_chunks |-> old_chunks, new_chunks |-> new_chunks,
     result |-> text_diff_of(old_chunks, new_chunks)]

\* one more chunk row of the old version is loaded, and the diff computed
LoadOldChunk(c) ==
    /\ LET old_chunks == IF call.op = "text_diff" THEN call.old_chunks ELSE <<>>
           new_chunks == IF call.op = "text_diff" THEN call.new_chunks ELSE <<>>
       IN /\ Len(old_chunks) < MaxDiffChunks
          /\ call' = TextDiffFrame(Append(old_chunks, c), new_chunks)
    /\ UNCHANGED <<documents, chunks, qdrant, es, run, deleted, version_diffs>>

\* one more chunk row of the new version is loaded, and the diff computed
LoadNewChunk(c) ==
    /\ LET old_chunks == IF call.op = "text_diff" THEN call.old_chunks ELSE <<>>
           new_chunks == IF call.op = "text_diff" THEN call.new_chunks ELSE <<>>
       IN /\ Len(new_chunks) < MaxDiffChunks
          /\ call' = TextDiffFrame(old_chunks, Append(new_chunks, c))
    /\ UNCHANGED <<documents, chunks, qdrant, es, run, deleted, version_diffs>>

NextTextDiff ==
    \/ \E c \in DiffChunks : LoadOldChunk(c)
    \/ \E c \in DiffChunks : LoadNewChunk(c)

SpecTextDiff == Init /\ [][NextTextDiff]_vars

\* the section paths of a list of chunk rows
PathsOf(chunk_list) == {SectionKey(chunk_list[i]) : i \in 1..Len(chunk_list)}

\* what the section is between the two lists
Classified(old_chunks, new_chunks, sp) ==
    IF sp \notin PathsOf(old_chunks) THEN "added"
    ELSE IF sp \notin PathsOf(new_chunks) THEN "deleted"
    ELSE IF Join(SectionTexts(old_chunks, sp), "nl")
              # Join(SectionTexts(new_chunks, sp), "nl") THEN "modified"
    ELSE "unchanged"

\* C26: every section path of the union is classified exactly once: added when
\* only the new list has it, deleted when only the old list has it, modified
\* when both have it with different text, not reported when both have it with
\* equal text; and the four counts of stats add up to the number of section
\* paths of the union.
C26_EverySectionClassifiedOnce ==
    call.op = "text_diff" =>
        LET diffs == call.result.sections
            stats == call.result.stats
            union == PathsOf(call.old_chunks) \cup PathsOf(call.new_chunks)
        IN /\ \A sp \in union :
                LET status == Classified(call.old_chunks, call.new_chunks, sp)
                    reported == {i \in 1..Len(diffs) : diffs[i].section_path = sp}
                IN IF status = "unchanged" THEN reported = {}
                   ELSE /\ Cardinality(reported) = 1
                        /\ \A i \in reported : diffs[i].status = status
           /\ stats.added + stats.deleted + stats.modified + stats.unchanged
                  = Cardinality(union)

\* ------------------------------------------- rank fusion (SpecFusion)
\* number of chunk ids the two searches can return
MaxRrfIds == 3
RrfIds == 1..MaxRrfIds

\* settings.retrieval_rrf_k
retrieval_rrf_k == 60
\* the k argument of a call: None, or the k=10 of test_custom_k
RrfKs == {NULL, 10}

\* a ranked list: chunk ids, none of them twice
RankedLists ==
    {r \in UNION {[1..n -> RrfIds] : n \in 0..MaxRrfIds} :
        \A i, j \in 1..Len(r) : i # j => r[i] # r[j]}

\* enumerate(results, start=1): the rank of the element at position i of a
\* list whose positions count from 1
enumerate_from_zero(i) == i - 1
enumerate_rank(i) == i

\* a score is the fraction num / den
Frac(num, den) == [num |-> num, den |-> den]
FracAdd(a, b) == Frac(a.num * b.den + b.num * a.den, a.den * b.den)
FracEq(a, b) == a.num * b.den = b.num * a.den
FracLess(a, b) == a.num * b.den < b.num * a.den

\* rrf_scores after the loop over one list: 1.0 / (k + rank) added for each
\* element; scores is a list of <<chunk_id, score>> in insertion order
RECURSIVE AddRanks(_, _, _, _)
AddRanks(scores, results, i, k) ==
    IF i > Len(results) THEN scores
    ELSE LET term == Frac(1, k + enumerate_rank(i))
             at == {n \in 1..Len(scores) : scores[n].chunk_id = results[i]}
             next == IF at = {}
                     THEN Append(scores, [chunk_id |-> results[i], score |-> term])
                     ELSE [n \in 1..Len(scores) |->
                              IF n \in at
                              THEN [scores[n] EXCEPT !.score = FracAdd(@, term)]
                              ELSE scores[n]]
         IN AddRanks(next, results, i + 1, k)

\* sorted(..., reverse=True): descending by score, equal scores in the order
\* they had
RECURSIVE sorted_desc(_)
sorted_desc(scores) ==
    IF scores = <<>> THEN <<>>
    ELSE LET front == sorted_desc(SubSeq(scores, 1, Len(scores) - 1))
             last == scores[Len(scores)]
             before == {n \in 1..Len(front) : ~FracLess(front[n].score, last.score)}
             at == Cardinality(before)
         IN SubSeq(front, 1, at) \o <<last>> \o SubSeq(front, at + 1, Len(front))

\* _rrf_fusion on two ranked lists of chunk ids
rrf_fusion_of(vector_results, bm25_results, k) ==
    LET k_used == IF k = NULL THEN retrieval_rrf_k ELSE k
        rrf_scores == AddRanks(AddRanks(<<>>, vector_results, 1, k_used),
                               bm25_results, 1, k_used)
    IN sorted_desc(rrf_scores)

RrfFrame(vector_results, bm25_results, k) ==
    [op |-> "rrf", vector_results |-> vector_results,
     bm25_results |-> bm25_results, k |-> k,
     results |-> rrf_fusion_of(vector_results, bm25_results, k)]

\* the vector search returns one more chunk, and the lists are fused
VectorHit(c, k) ==
    /\ LET vector_results == IF call.op = "rrf" THEN call.vector_results ELSE <<>>
           bm25_results == IF call.op = "rrf" THEN call.bm25_results ELSE <<>>
       IN /\ Append(vector_results, c) \in RankedLists
          /\ call' = RrfFrame(Append(vector_results, c), bm25_results, k)
    /\ UNCHANGED <<documents, chunks, qdrant, es, run, deleted, version_diffs>>

\* the lexical search returns one more chunk, and the lists are fused
Bm25Hit(c, k) ==
    /\ LET vector_results == IF call.op = "rrf" THEN call.vector_results ELSE <<>>
           bm25_results == IF call.op = "rrf" THEN call.bm25_results ELSE <<>>
       IN /\ Append(bm25_results, c) \in RankedLists
          /\ call' = RrfFrame(vector_results, Append(bm25_results, c), k)
    /\ UNCHANGED <<documents, chunks, qdrant, es, run, deleted, version_diffs>>

NextFusion ==
    \/ \E c \in RrfIds, k \in RrfKs : VectorHit(c, k)
    \/ \E c \in RrfIds, k \in RrfKs : Bm25Hit(c, k)

SpecFusion == Init /\ [][NextFusion]_vars

\* the rank of chunk id c in a ranked list, counted from 1; 0 without it
RankIn(results, c) ==
    IF \E i \in 1..Len(results) : results[i] = c
    THEN CHOOSE i \in 1..Len(results) : results[i] = c
    ELSE 0

\* the sum over the lists that hold c of 1 / (k + rank)
ExpectedScore(vector_results, bm25_results, k, c) ==
    LET rv == RankIn(vector_results, c)
        rb == RankIn(bm25_results, c)
    IN IF rv > 0 /\ rb > 0 THEN Frac((k + rv) + (k + rb), (k + rv) * (k + rb))
       ELSE IF rv > 0 THEN Frac(1, k + rv)
       ELSE Frac(1, k + rb)

\* C27: the fused list holds every chunk id of either list exactly once and
\* no other; the score of an id is the sum over the lists that hold it of
\* 1 / (k + rank), rank counted from 1; the scores do not increase along the
\* list (so for disjoint lists the output is their union).
C27_FusionScoresAndOrder ==
    call.op = "rrf" =>
        LET results == call.results
            k == IF call.k = NULL THEN retrieval_rrf_k ELSE call.k
            ids == {call.vector_results[i] : i \in 1..Len(call.vector_results)}
                     \cup {call.bm25_results[i] : i \in 1..Len(call.bm25_results)}
        IN /\ \A c \in RrfIds :
                Cardinality({n \in 1..Len(results) : results[n].chunk_id = c})
                    = (IF c \in ids THEN 1 ELSE 0)
           /\ \A n \in 1..Len(results) :
                FracEq(results[n].score,
                       ExpectedScore(call.vector_results, call.bm25_results, k,
                                     results[n].chunk_id))
           /\ \A n \in 1..(Len(results) - 1) :
                ~FracLess(results[n].score, results[n + 1].score)

\* a chunk of both lists is fused with chunks of one list only, and the order
\* of the fused list differs from the vector order
C27_Witness ==
    /\ call.op = "rrf"
    /\ call.vector_results = <<1, 2>>
    /\ call.bm25_results = <<2, 3>>
    /\ Len(call.results) = 3
    /\ call.results[1].chunk_id = 2

\* -------------------------------------- whole document (SpecSemanticChunk)
\* number of sections of a parsed document
MaxSections == 3

Words(n) == [i \in 1..n |-> "w"]
Blank(n) == [i \in 1..n |-> "nl"]

\* full_content of a section: empty, one word, white space only and longer
\* than a chunk may be, two paragraphs that do not fit one chunk
SectionSamples ==
    {<<>>, Words(1), Blank(chunk_max_size + 1),
     Words(chunk_target_size) \o <<"nlnl">> \o Words(chunk_target_size)}

\* parsed_doc.raw_text: empty, one word, two paragraphs
RawTextSamples ==
    {<<>>, Words(1), Words(chunk_target_size) \o <<"nlnl">> \o Words(chunk_target_size)}

\* chunk_index += len(section_chunks)
NextIndex_plus_one(chunk_index, section_chunks) == chunk_index + 1
NextIndex(chunk_index, section_chunks) == chunk_index + Len(section_chunks)

\* the loop over parsed_doc.sections
RECURSIVE SectionLoop(_, _, _)
SectionLoop(sections, chunks_, chunk_index) ==
    IF sections = <<>> THEN chunks_
    ELSE LET section_chunks == _chunk_section(Head(sections), chunk_index)
         IN SectionLoop(Tail(sections), chunks_ \o section_chunks,
                        NextIndex(chunk_index, section_chunks))

\* _make_table_chunk
_make_table_chunk(chunk_index) ==
    [chunk_index |-> chunk_index, chunk_type |-> "table", content |-> <<"w">>,
     token_count |-> 1]

\* the loop over parsed_doc.tables; chunk_index is where the sections ended
RECURSIVE TableLoop(_, _, _)
TableLoop(tables, chunks_, chunk_index) ==
    IF tables = 0 THEN chunks_
    ELSE TableLoop(tables - 1, Append(chunks_, _make_table_chunk(chunk_index)),
                   chunk_index + 1)

\* _chunk_raw_text
_chunk_raw_text(text) ==
    _merge_paragraphs_into_chunks(_split_into_paragraphs(text), 0)

\* the index the sections end at: chunk_index after the first loop
RECURSIVE IndexAfterSections(_, _)
IndexAfterSections(sections, chunk_index) ==
    IF sections = <<>> THEN chunk_index
    ELSE IndexAfterSections(Tail(sections),
            NextIndex(chunk_index, _chunk_section(Head(sections), chunk_index)))

\* str(uuid.uuid4()) of every Chunk(...): the n-th chunk built carries the
\* n-th draw, and the chunks are built in list order
WithChunkIds(chunks_) ==
    [n \in 1..Len(chunks_) |->
        [chunk_id |-> n, chunk_index |-> chunks_[n].chunk_index,
         chunk_type |-> chunks_[n].chunk_type, content |-> chunks_[n].content,
         token_count |-> chunks_[n].token_count]]

\* semantic_chunk on a parsed document: its sections' texts, the number of
\* its tables, its raw text
semantic_chunk_of(sections, tables, raw_text) ==
    LET from_sections == SectionLoop(sections, <<>>, 0)
        with_tables == TableLoop(tables, from_sections, IndexAfterSections(sections, 0))
    IN WithChunkIds(IF with_tables = <<>> /\ raw_text # <<>>
                    THEN _chunk_raw_text(raw_text)
                    ELSE with_tables)

ParsedFrame(sections, tables, raw_text) ==
    [op |-> "semantic_chunk", sections |-> sections, tables |-> tables,
     raw_text |-> raw_text, chunks |-> semantic_chunk_of(sections, tables, raw_text)]

NoParsed == ParsedFrame(<<>>, 0, <<>>)
Parsed == IF call.op = "semantic_chunk" THEN call ELSE NoParsed

\* the parser finds one more section, and the document is chunked
ParseSection(text) ==
    /\ Len(Parsed.sections) < MaxSections
    /\ call' = ParsedFrame(Append(Parsed.sections, text), Parsed.tables, Parsed.raw_text)
    /\ UNCHANGED <<documents, chunks, qdrant, es, run, deleted, version_diffs>>

\* the parser finds one more table, and the document is chunked
ParseTable ==
    /\ Parsed.tables < MaxTables
    /\ call' = ParsedFrame(Parsed.sections, Parsed.tables + 1, Parsed.raw_text)
    /\ UNCHANGED <<documents, chunks, qdrant, es, run, deleted, version_diffs>>

\* the parser gives the raw text, and the document is chunked
ParseRawText(text) ==
    /\ Parsed.raw_text = <<>>
    /\ text # <<>>
    /\ call' = ParsedFrame(Parsed.sections, Parsed.tables, text)
    /\ UNCHANGED <<documents, chunks, qdrant, es, run, deleted, version_diffs>>

NextSemanticChunk ==
    \/ \E text \in SectionSamples : ParseSection(text)
    \/ ParseTable
    \/ \E text \in RawTextSamples : ParseRawText(text)

SpecSemanticChunk == Init /\ [][NextSemanticChunk]_vars

\* C28: the chunks of a document carry chunk_index 0, 1, ..., n-1 in list
\* order, text chunks before table chunks, whatever sections gave no chunk;
\* and no two chunks have the same chunk_id.
C28_IndicesSequentialIdsDistinct ==
    call.op = "semantic_chunk" =>
        /\ \A n \in 1..Len(call.chunks) : call.chunks[n].chunk_index = n - 1
        /\ \A m, n \in 1..Len(call.chunks) :
              /\ m # n => call.chunks[m].chunk_id # call.chunks[n].chunk_id
              /\ (m < n /\ call.chunks[m].chunk_type = "table")
                    => call.chunks[n].chunk_type = "table"

\* a section that gives no chunk lies between a section of one chunk and a
\* section of several, and a table follows
C28_Witness ==
    /\ call.op = "semantic_chunk"
    /\ Len(call.sections) = 3
    /\ _chunk_section(call.sections[1], 0) # <<>>
    /\ _chunk_section(call.sections[2], 0) = <<>>
    /\ Len(_chunk_section(call.sections[3], 0)) >= 2
    /\ call.tables >= 1
    /\ Len(call.chunks) >= 4

\* --------------------------- contextual descriptions (SpecContext)
\* text chunks of the document whose descriptions are followed
MaxContextChunks == 12
\* asyncio.Semaphore(10)
SemaphoreValue == 10

\* the chunk list process_document passes: the text chunks of the chunker,
\* then the summary chunks appended to them
ContextChunks(texts, summaries) ==
    [i \in 1..(texts + summaries) |-> IF i <= texts THEN "text" ELSE "doc_summary"]

\* _add_contextual_descriptions is called: with an empty doc_summary it returns
\* at once; otherwise gather makes one bounded_process_chunk task per chunk
\* and awaits them
_add_contextual_descriptions(texts, summaries, doc_summary) ==
    /\ call = NoCall
    /\ call' = [op |-> "context", doc_summary |-> doc_summary,
                chunk_types |-> ContextChunks(texts, summaries),
                task |-> [i \in 1..(texts + summaries) |-> "created"],
                pc |-> IF doc_summary = "" THEN "returned" ELSE "gather"]
    /\ UNCHANGED <<documents, chunks, qdrant, es, run, deleted, version_diffs>>

Gathering == call.op = "context" /\ call.pc = "gather"

\* tasks inside `async with semaphore`, awaiting generate_contextual_description
InFlight == {i \in DOMAIN call.task : call.task[i] = "in_flight"}

\* the semaphore serves its waiters in the order they came, which is the
\* order of the chunk list
Turn(i) == \A j \in 1..(i - 1) : call.task[j] # "created"

\* bounded_process_chunk of a text chunk enters the semaphore and awaits
\* generate_contextual_description
acquire(i) ==
    /\ Gathering /\ i \in DOMAIN call.task
    /\ call.task[i] = "created" /\ call.chunk_types[i] = "text"
    /\ Turn(i)
    /\ Cardinality(InFlight) < SemaphoreValue
    /\ call' = [call EXCEPT !.task[i] = "in_flight"]
    /\ UNCHANGED <<documents, chunks, qdrant, es, run, deleted, version_diffs>>

\* bounded_process_chunk of a chunk that is not text: process_chunk awaits
\* nothing, the semaphore is entered and left in one step
skip_chunk(i) ==
    /\ Gathering /\ i \in DOMAIN call.task
    /\ call.task[i] = "created" /\ call.chunk_types[i] # "text"
    /\ Turn(i)
    /\ Cardinality(InFlight) < SemaphoreValue
    /\ call' = [call EXCEPT !.task[i] = "done"]
    /\ UNCHANGED <<documents, chunks, qdrant, es, run, deleted, version_diffs>>

\* generate_contextual_description returns (a description, or "" after a
\* failed call); the content is updated and the semaphore left
release(i) ==
    /\ Gathering /\ i \in DOMAIN call.task
    /\ call.task[i] = "in_flight"
    /\ call' = [call EXCEPT !.task[i] = "done"]
    /\ UNCHANGED <<documents, chunks, qdrant, es, run, deleted, version_diffs>>

\* asyncio.gather returns once every task is done
gather_returns ==
    /\ Gathering
    /\ \A i \in DOMAIN call.task : call.task[i] = "done"
    /\ call' = [call EXCEPT !.pc = "returned"]
    /\ UNCHANGED <<documents, chunks, qdrant, es, run, deleted, version_diffs>>

NextContext ==
    \/ \E texts \in 0..MaxContextChunks, summaries \in {0, 1}, doc_summary \in {"", "summary"} :
          _add_contextual_descriptions(texts, summaries, doc_summary)
    \/ \E i \in 1..(MaxContextChunks + 1) : acquire(i)
    \/ \E i \in 1..(MaxContextChunks + 1) : skip_chunk(i)
    \/ \E i \in 1..(MaxContextChunks + 1) : release(i)
    \/ gather_returns

SpecContext == Init /\ [][NextContext]_vars

\* C29: at most 10 generate_contextual_description calls are in flight at any
\* moment, and when the call has returned every text chunk has been processed.
C29_BoundedAndJoined ==
    call.op = "context" =>
        /\ Cardinality(InFlight) <= 10
        /\ call.pc = "returned" =>
              \A i \in DOMAIN call.task :
                  call.chunk_types[i] = "text" => call.task[i] = "done"

\* ------------------------------ background diff tasks (SpecBackground)
\* The tasks of _compute_diff_background and IngestionPipeline._background_tasks
\* are kept in the frame; a task is named by the run that created it.
NoTasks == [op |-> "background", task |-> <<>>, _background_tasks |-> {}]
Background == IF call.op = "background" THEN call ELSE NoTasks

\* set.discard
discard_keeps(S, t) == S
discard(S, t) == S \ {t}

\* asyncio.create_task(self._compute_diff_background(old_id, new_id)), then
\* _background_tasks.add(task) and add_done_callback: no await in between
create_task(d) ==
    LET old_id == IF run[d].new_is_newer THEN run[d].matched ELSE d
        new_id == IF run[d].new_is_newer THEN d ELSE run[d].matched
        made == [old_doc_id |-> old_id, new_doc_id |-> new_id,
                 pc |-> "running", outcome |-> "none"]
    IN call' = [Background EXCEPT
                  !.task = [t \in DOMAIN @ \cup {d} |-> IF t = d THEN made ELSE @[t]],
                  !._background_tasks = @ \cup {d}]

\* _compute_diff_background runs to its end: compute_full_diff returns, or it
\* raises and the except branch logs the error
_compute_diff_background(t, diff) ==
    /\ t \in DOMAIN Background.task
    /\ Background.task[t].pc = "running"
    /\ LET result == compute_full_diff(Background.task[t].old_doc_id,
                                       Background.task[t].new_doc_id, diff, NOW)
       IN /\ version_diffs' = result.table
          /\ call' = [Background EXCEPT
                        !.task[t].pc = "done",
                        !.task[t].outcome = IF result.outcome = "raised"
                                            THEN "failed" ELSE "completed"]
    /\ UNCHANGED <<documents, chunks, qdrant, es, run, deleted>>

\* the done callback of a finished task, run by the event loop
done_callback(t) ==
    /\ t \in DOMAIN Background.task
    /\ Background.task[t].pc = "done"
    /\ t \in Background._background_tasks
    /\ call' = [Background EXCEPT !._background_tasks = discard(@, t)]
    /\ UNCHANGED <<documents, chunks, qdrant, es, run, deleted, version_diffs>>

\* the steps of process_document that neither end a version link nor fail
StepsWithoutTask(d) ==
    \/ StepsBeforeVerdict(d, {1}, {0}, {TRUE})
    \/ \E newer \in BOOLEAN : \E m \in run[d].candidates : LlmMatch(d, m, newer, NULL)
    \/ LinkNewer(d)
    \/ Embedding(d)
    \/ StoreQdrant(d)
    \/ StoreEs(d)
    \/ StorePg(d)
    \/ Ready(d)
    \/ ChunkCount(d)

NextBackground ==
    \/ \E d \in 1..MaxApiDocs, h \in NextHashes : Quiescent /\ Begin(d, h)
    \/ \E d \in DocIds : StepsWithoutTask(d)
    \/ \E d \in DocIds : LinkOlderTx(d) /\ create_task(d)
    \/ \E d \in DocIds : _mark_chunks_not_latest(d, FALSE, FALSE) /\ create_task(d)
    \/ \E d \in DocIds : MarkFails(d)
    \/ \E t \in DocIds, diff \in DiffOutcomes : _compute_diff_background(t, diff)
    \/ \E t \in DocIds : done_callback(t)

\* the event loop runs every callback it was given
SpecBackground ==
    /\ Init /\ [][NextBackground]_vars
    /\ \A t \in DocIds : WF_vars(done_callback(t))

Status(docs, d) == IF d \in DOMAIN docs THEN docs[d].processing_status ELSE "absent"

\* C30: a background diff task is in _background_tasks while it runs, leaves
\* the set once it is done, whether the diff succeeded or raised, and the step
\* in which it fails changes no document's processing status.
C30_TaskRetainedThenReleased ==
    /\ [](\A t \in DOMAIN Background.task :
             Background.task[t].pc = "running" => t \in Background._background_tasks)
    /\ \A t \in DocIds :
          (t \in DOMAIN Background.task /\ Background.task[t].pc = "done")
             ~> (t \notin Background._background_tasks)
    /\ [][\A t \in DOMAIN Background.task :
             (Background.task[t].pc = "running" /\ call'.task[t].outcome = "failed")
                => \A d \in DocIds : Status(documents', d) = Status(documents, d)]_vars

\* a task whose diff raised has left the set, and the document that made it
\* has become ready
C30_Witness ==
    \E t \in DOMAIN Background.task :
        /\ Background.task[t].outcome = "failed"
        /\ t \notin Background._background_tasks
        /\ Status(documents, t) = "ready"

\* ------------------------------------------------- LLM client (SpecLlm)
\* @retry(stop=stop_after_attempt(3), ...) on generate and on generate_json
stop_after_attempt == 3

\* what one request to the provider gives: an exception, a text that is
\* valid JSON, a text that is not
ProviderOutcomes == {"raises", "json", "not_json"}
LLMClientMethods == {"generate", "generate_json"}

\* a logical call: attempt counts the tries of generate, json_attempt the
\* tries of generate_json around it, requests the provider's answers so far
LLMClient_call(method) ==
    /\ call = NoCall
    /\ call' = [op |-> "llm", method |-> method, attempt |-> 1, json_attempt |-> 1,
                requests |-> <<>>, pc |-> "running"]
    /\ UNCHANGED <<documents, chunks, qdrant, es, run, deleted, version_diffs>>

\* a try of generate_json has failed (generate gave up, or json.loads raised
\* ValueError): its own retry starts generate again, or gives up
generate_json_failed(frame) ==
    IF frame.json_attempt < stop_after_attempt
    THEN [frame EXCEPT !.json_attempt = @ + 1, !.attempt = 1]
    ELSE [frame EXCEPT !.pc = "raised"]

\* generate's request raised: its retry sends the request again, or gives up
\* with RetryError, which for generate_json is a failed try
generate_failed(frame) ==
    IF frame.attempt < stop_after_attempt
    THEN [frame EXCEPT !.attempt = @ + 1]
    ELSE IF frame.method = "generate" THEN [frame EXCEPT !.pc = "raised"]
    ELSE generate_json_failed(frame)

\* one request to the provider (client.messages.create or
\* client.chat.completions.create) and what the decorators do with its outcome
provider_request(outcome) ==
    /\ call.op = "llm" /\ call.pc = "running"
    /\ LET sent == [call EXCEPT !.requests = Append(@, outcome)]
       IN call' = IF outcome = "raises" THEN generate_failed(sent)
                  ELSE IF call.method = "generate" \/ outcome = "json"
                  THEN [sent EXCEPT !.pc = "returned"]
                  ELSE generate_json_failed(sent)
    /\ UNCHANGED <<documents, chunks, qdrant, es, run, deleted, version_diffs>>

NextLlm ==
    \/ \E method \in LLMClientMethods : LLMClient_call(method)
    \/ \E outcome \in ProviderOutcomes : provider_request(outcome)

SpecLlm == Init /\ [][NextLlm]_vars

\* C31: a logical call through LLMClient sends at most 3 requests to the
\* provider before it returns or raises.
C31_AtMostThreeRequests ==
    call.op = "llm" => Len(call.requests) <= 3

\* ------------------------------------ stored token counts (SpecTokens)
\* Chunk(...) built for a summary: content is the summary text, token_count
\* is not passed and keeps the default of the model class, 0
SummaryChunkOf(type) ==
    [chunk_id |-> 0, chunk_index |-> 0, chunk_type |-> type, content |-> <<"w", "w">>,
     token_count |-> 0]

\* semantic_chunk returns, for the sections and the tables of the document
ChunkDocument(sections, tables) ==
    /\ call = NoCall
    /\ semantic_chunk_of(sections, tables, <<>>) # <<>>
    /\ call' = [op |-> "tokens", pc |-> "summarizing", doc_summary |-> "",
                chunk_list |-> semantic_chunk_of(sections, tables, <<>>), stored |-> <<>>]
    /\ UNCHANGED <<documents, chunks, qdrant, es, run, deleted, version_diffs>>

\* _generate_summaries_and_metadata and chunks.extend(summary_chunks): a
\* section summary when the LLM gave one, a document summary when there is a
\* section summary and the LLM gave one
ExtendWithSummaries(sec_ok, doc_ok) ==
    /\ call.op = "tokens" /\ call.pc = "summarizing"
    /\ LET has_text == \E i \in 1..Len(call.chunk_list) : call.chunk_list[i].chunk_type = "text"
           sec == IF has_text /\ sec_ok THEN <<SummaryChunkOf("section_summary")>> ELSE <<>>
           doc == IF sec # <<>> /\ doc_ok THEN <<SummaryChunkOf("doc_summary")>> ELSE <<>>
       IN call' = [call EXCEPT !.pc = "describing",
                               !.doc_summary = IF doc # <<>> THEN "summary" ELSE "",
                               !.chunk_list = @ \o sec \o doc]
    /\ UNCHANGED <<documents, chunks, qdrant, es, run, deleted, version_diffs>>

\* process_chunk: chunk.content = f"{desc}\n\n{chunk.content}" for a text
\* chunk whose description is not empty; nothing else of the chunk is written
process_chunk(chunk, desc) ==
    IF chunk.chunk_type = "text" /\ desc # <<>>
    THEN [chunk EXCEPT !.content = desc \o <<"nlnl">> \o @]
    ELSE chunk

\* _add_contextual_descriptions has returned; described: the chunks for which
\* generate_contextual_description gave a description
AddDescriptions(described) ==
    /\ call.op = "tokens" /\ call.pc = "describing"
    /\ described \subseteq DOMAIN call.chunk_list
    /\ call.doc_summary = "" => described = {}
    /\ call' = [call EXCEPT !.pc = "storing",
                  !.chunk_list = [i \in DOMAIN @ |->
                      process_chunk(@[i], IF i \in described THEN <<"w">> ELSE <<>>)]]
    /\ UNCHANGED <<documents, chunks, qdrant, es, run, deleted, version_diffs>>

\* _store_to_qdrant, _store_to_elasticsearch, _store_chunks_metadata: each
\* writes chunk.content and chunk.token_count as they are
StoreChunks ==
    /\ call.op = "tokens" /\ call.pc = "storing"
    /\ call' = [call EXCEPT !.pc = "stored",
                  !.stored = [i \in DOMAIN call.chunk_list |->
                      [chunk_type |-> call.chunk_list[i].chunk_type,
                       content |-> call.chunk_list[i].content,
                       token_count |-> call.chunk_list[i].token_count]]]
    /\ UNCHANGED <<documents, chunks, qdrant, es, run, deleted, version_diffs>>

NextTokens ==
    \/ \E s1 \in SectionSamples, s2 \in SectionSamples, tables \in 0..MaxTables :
          ChunkDocument(<<s1, s2>>, tables)
    \/ \E sec_ok \in BOOLEAN, doc_ok \in BOOLEAN : ExtendWithSummaries(sec_ok, doc_ok)
    \/ \E described \in SUBSET (IF call.op = "tokens" THEN DOMAIN call.chunk_list ELSE {}) :
          AddDescriptions(described)
    \/ StoreChunks

SpecTokens == Init /\ [][NextTokens]_vars

\* C32: every chunk written to the stores has a token_count equal to the
\* token count of its stored content.
C32_StoredTokenCountMatches ==
    call.op = "tokens" =>
        \A i \in DOMAIN call.stored :
            call.stored[i].token_count = count_tokens(call.stored[i].content)

\* --------------------------------------- observations (SpecObservation)
\* the keys of TOOL_REGISTRY
ToolNames ==
    {"search_documents", "read_document_summary", "read_document_detail",
     "list_documents", "compare_versions", "get_version_history",
     "cross_document_analysis"}

\* `if len(result) > 3000`, `result[:3000]`
ObservationLimit == 3000
\* len("\n\n... (结果已截断，共 {} 字符)") without the number
TruncationNoteLen == 19
\* len of the "unknown tool" message without the tool name
UnknownToolLen == 155

\* lengths of the string a tool returns: short ones, those around the limit,
\* a long one
ResultLengths == {0, 1, 500} \cup ((ObservationLimit - 5)..(ObservationLimit + 5)) \cup {20000}
\* lengths of a tool name the LLM gives that is not in the registry
UnknownNameLengths == {1, 12}

\* len(str(n)) for a length n
Digits(n) == IF n < 10 THEN 1 ELSE IF n < 100 THEN 2 ELSE IF n < 1000 THEN 3
             ELSE IF n < 10000 THEN 4 ELSE 5

\* the length of what execute_tool returns for a tool result of length n
Truncated(n) ==
    IF n > ObservationLimit THEN ObservationLimit + TruncationNoteLen + Digits(n)
    ELSE n

\* execute_tool(tool_name, params): the observation of a registered tool whose
\* function returns a string of result_len characters
execute_tool_of(tool_name, result_len) ==
    /\ call' = [op |-> "execute_tool", tool_name |-> tool_name, known |-> TRUE,
                result_len |-> result_len, observation_len |-> Truncated(result_len)]
    /\ UNCHANGED <<documents, chunks, qdrant, es, run, deleted, version_diffs>>

\* execute_tool with a name that is not registered: the message is returned
\* at once
execute_unknown_tool(name_len) ==
    /\ call' = [op |-> "execute_tool", tool_name |-> "", known |-> FALSE,
                result_len |-> name_len, observation_len |-> UnknownToolLen + name_len]
    /\ UNCHANGED <<documents, chunks, qdrant, es, run, deleted, version_diffs>>

NextObservation ==
    \/ \E tool_name \in ToolNames, result_len \in ResultLengths :
          execute_tool_of(tool_name, result_len)
    \/ \E name_len \in UnknownNameLengths : execute_unknown_tool(name_len)

SpecObservation == Init /\ [][NextObservation]_vars

\* C33: every observation execute_tool returns has at most 3000 characters.
C33_ObservationAtMost3000 ==
    call.op = "execute_tool" => call.observation_len <= 3000

\* C34: when the background compute_full_diff of a task loads the text chunks
\* of the two documents, the chunk rows of the document being ingested (the
\* one whose run made the task) are already in the chunks table.
C34_DiffLoadsStoredChunks ==
    [][\A t \in DocIds :
          (/\ t \in DOMAIN Background.task
           /\ Background.task[t].pc = "running"
           /\ call'.task[t].pc = "done")
             => TextChunksOf(t) # {}]_vars

\* run d has failed after _link_version linked it, as the newer version, to
\* the document it matched
FailedAfterNewerLink(d) ==
    /\ run[d].pc = "failed"
    /\ run[d].matched # NULL /\ run[d].new_is_newer
    /\ Exists(d) /\ Exists(run[d].matched)
    /\ Parent(d) = run[d].matched

\* C35: when process_document has failed after the "uploaded is newer" link,
\* the chain still has a ready document with is_latest = true whose chunks
\* carry is_latest = true in both stores.
C35_FailedUploadKeepsLatest ==
    \A d \in DocIds :
        (Quiescent /\ FailedAfterNewerLink(d)) =>
            \E e \in VersionChain(d) :
                /\ ReadyLatest(e)
                /\ \A x \in qdrant \cup es : x.doc_id = e => x.is_latest

\* ------------------------------------- the LLM's verdict (SpecVerify)
\* matched_doc_id of the LLM's JSON: a full identifier (any text of 36
\* characters, here that of a document of the table) or a shorter text, which
\* the prompt shows for every candidate
MatchedIdKinds == {"full", "prefix"}

\* _llm_verify: a text shorter than 36 characters is completed to the
\* candidate whose doc_id starts with it; a full identifier is kept as it is
\* and compared with nothing
_llm_verify(d, matched_doc_id, kind, newer) ==
    /\ Exists(matched_doc_id)
    /\ kind = "prefix" => matched_doc_id \in run[d].candidates
    /\ LlmMatch(d, matched_doc_id, newer, NULL)

NextVerify ==
    \/ IngestSeq(DocIds, {1}, {0}, {TRUE}, {FALSE})
    \/ \E d \in DocIds, matched_doc_id \in DocIds, kind \in MatchedIdKinds, newer \in BOOLEAN :
          _llm_verify(d, matched_doc_id, kind, newer)

SpecVerify == Init /\ [][NextVerify]_vars

\* C36: the matched_doc_id _detect_and_link_version acts on is the doc_id of
\* one of the candidates shown to the LLM.
C36_MatchAmongCandidates ==
    \A d \in DocIds :
        run[d].pc \in {"link", "mark"} => run[d].matched \in run[d].candidates

\* C37: once the processing_status of a document is ready, no step of a
\* process_document run sets it to error.
C37_ReadyNeverBecomesError ==
    [][\A d \in DOMAIN documents :
          documents[d].processing_status = "ready"
             => Status(documents', d) # "error"]_vars

\* ---------------------------------------------------------------------------
\* Two compute_full_diff calls for the same pair, interleaved at their awaits
\* ---------------------------------------------------------------------------

\* The callers: the task scheduled at link time and GET /{doc_id}/diff/{other}.
DiffCallers == {"background", "request"}

\* Whether version_diffs has a unique constraint on
\* (old_version_id, new_version_id).
PairConstraints == {"none", "unique"}

NoDiffCalls == [c \in DiffCallers |-> [pc |-> "idle", diff_id |-> NULL]]

ConcurrentDiffs == call.op = "compute_full_diff"

\* The pair and the table the calls work on.
open_pair(old_doc_id, new_doc_id, constraint) ==
    /\ call = NoCall
    /\ old_doc_id # new_doc_id
    /\ call' = [op |-> "compute_full_diff", old_doc_id |-> old_doc_id,
                new_doc_id |-> new_doc_id, constraint |-> constraint,
                rows |-> {}, uuid4 |-> 1, calls |-> NoDiffCalls]
    /\ UNCHANGED <<documents, chunks, qdrant, es, run, deleted, version_diffs>>

\* compute_full_diff entered by caller c.
enter_compute_full_diff(c) ==
    /\ ConcurrentDiffs
    /\ call.calls[c].pc = "idle"
    /\ call' = [call EXCEPT !.calls[c].pc = "check"]
    /\ UNCHANGED <<documents, chunks, qdrant, es, run, deleted, version_diffs>>

\* existing = await self._get_existing_diff(...): the row fetchone() gives, if
\* any, is returned; else the call goes on to load the chunks and compute.
await_get_existing_diff(c) ==
    /\ ConcurrentDiffs
    /\ call.calls[c].pc = "check"
    /\ \/ /\ call.rows = {}
          /\ call' = [call EXCEPT !.calls[c].pc = "compute"]
       \/ \E row \in call.rows :
             call' = [call EXCEPT !.calls[c] = [pc |-> "returned", diff_id |-> row]]
    /\ UNCHANGED <<documents, chunks, qdrant, es, run, deleted, version_diffs>>

\* diff_id = str(uuid.uuid4()); await self._store_diff(diff_id, ...): a plain
\* INSERT, which a unique constraint on the pair rejects.
await_store_diff(c) ==
    /\ ConcurrentDiffs
    /\ call.calls[c].pc = "compute"
    /\ LET diff_id == call.uuid4
       IN call' = IF call.constraint = "unique" /\ call.rows # {}
                  THEN [call EXCEPT !.uuid4 = @ + 1,
                                    !.calls[c] = [pc |-> "raised", diff_id |-> NULL]]
                  ELSE [call EXCEPT !.uuid4 = @ + 1,
                                    !.rows = @ \cup {diff_id},
                                    !.calls[c] = [pc |-> "returned", diff_id |-> diff_id]]
    /\ UNCHANGED <<documents, chunks, qdrant, es, run, deleted, version_diffs>>

NextConcurrentDiffs ==
    \/ \E old_doc_id, new_doc_id \in DocIds, constraint \in PairConstraints :
          open_pair(old_doc_id, new_doc_id, constraint)
    \/ \E c \in DiffCallers : enter_compute_full_diff(c)
    \/ \E c \in DiffCallers : await_get_existing_diff(c)
    \/ \E c \in DiffCallers : await_store_diff(c)

SpecConcurrentDiffs == Init /\ [][NextConcurrentDiffs]_vars

\* C38: after two concurrent compute_full_diff calls for the same pair, the
\* table holds at most one row for the pair and both calls have returned the
\* same diff_id.
C38_OneRowSameDiffId ==
    (ConcurrentDiffs /\ \A c \in DiffCallers : call.calls[c].pc \in {"returned", "raised"})
       => /\ Cardinality(call.rows) <= 1
          /\ \A c \in DiffCallers : call.calls[c].pc = "returned"
          /\ call.calls["background"].diff_id = call.calls["request"].diff_id

\* ---------------------------------------------------------------------------
\* Context window expansion of a retrieved chunk
\* ---------------------------------------------------------------------------

MaxWindowText == 3        \* text chunks of the document in the index
MaxWindowSummaries == 2   \* summary chunks of the document in the index

\* settings.context_window_chunks (default 1) and a wider window
ContextWindows == {1, 2}

SummaryTypes == {"section_summary", "doc_summary"}

\* The chunks of one document as indexed: text chunks numbered by the chunker,
\* then the summary chunks, built with the default chunk_index of Chunk.  The
\* content of a chunk is named by its chunk_id, so no two contents are equal.
IndexedChunk(chunk_id, chunk_index, chunk_type) ==
    [chunk_id |-> chunk_id, chunk_index |-> chunk_index,
     chunk_type |-> chunk_type, content |-> chunk_id]

Indexing == call.op = "window" /\ call.pc = "indexing"

CountOfType(index, types) == Cardinality({c \in index : c.chunk_type \in types})

index_text_chunk ==
    /\ call = NoCall \/ Indexing
    /\ LET index == IF call = NoCall THEN {} ELSE call.index
           n == CountOfType(index, {"text"})
       IN /\ CountOfType(index, SummaryTypes) = 0
          /\ n < MaxWindowText
          /\ call' = [op |-> "window", pc |-> "indexing",
                      index |-> index \cup {IndexedChunk(Cardinality(index) + 1, n, "text")},
                      anchor |-> NULL, hits |-> <<>>, expanded |-> NULL]
    /\ UNCHANGED <<documents, chunks, qdrant, es, run, deleted, version_diffs>>

index_summary_chunk(chunk_type) ==
    /\ Indexing
    /\ CountOfType(call.index, SummaryTypes) < MaxWindowSummaries
    /\ "doc_summary" \notin {c.chunk_type : c \in call.index}
    /\ call' = [call EXCEPT !.index =
                   @ \cup {IndexedChunk(Cardinality(@) + 1, 0, chunk_type)}]
    /\ UNCHANGED <<documents, chunks, qdrant, es, run, deleted, version_diffs>>

\* range(max(0, chunk_index - window), chunk_index + window + 1)
target_indices(chunk_index, window) ==
    {i \in 0..(chunk_index + window) : i >= chunk_index - window}

\* What es.search may answer: the chunks of the document whose chunk_index is
\* a target, sorted by chunk_index ascending, cut to `size`; the order among
\* equal chunk_index values is not fixed by the query.
IsSearchResponse(hits, matching, size) ==
    /\ Len(hits) = (IF Cardinality(matching) < size THEN Cardinality(matching) ELSE size)
    /\ \A i, j \in DOMAIN hits : i < j =>
          /\ hits[i] # hits[j]
          /\ hits[i].chunk_index <= hits[j].chunk_index
    /\ \A c \in matching :
          (\A i \in DOMAIN hits : hits[i] # c)
             => \A i \in DOMAIN hits : hits[i].chunk_index <= c.chunk_index

\* "\n\n".join(neighbor_contents), kept as the sequence of the joined contents
expanded_content(hits) == [i \in DOMAIN hits |-> hits[i].content]

\* One iteration of the loop of _expand_context_window for `chunk`.
expand_chunk(chunk, hits) ==
    IF Len(hits) > 1
    THEN [chunk EXCEPT !.content = expanded_content(hits)]
    ELSE [chunk EXCEPT !.content = <<chunk.content>>]

_expand_context_window(window) ==
    /\ Indexing
    /\ \E chunk \in call.index :
          LET targets == target_indices(chunk.chunk_index, window)
              matching == {c \in call.index : c.chunk_index \in targets}
              size == Cardinality(targets)
          IN \E n \in 0..size : \E hits \in [1..n -> matching] :
                /\ IsSearchResponse(hits, matching, size)
                /\ call' = [call EXCEPT !.pc = "expanded", !.anchor = chunk,
                                        !.hits = hits,
                                        !.expanded = expand_chunk(chunk, hits)]
    /\ UNCHANGED <<documents, chunks, qdrant, es, run, deleted, version_diffs>>

NextWindow ==
    \/ index_text_chunk
    \/ \E chunk_type \in SummaryTypes : index_summary_chunk(chunk_type)
    \/ \E window \in ContextWindows : _expand_context_window(window)

SpecWindow == Init /\ [][NextWindow]_vars

\* C39: the expanded content of a returned chunk contains the content of the
\* anchor chunk itself, and every other field of the returned chunk is the
\* anchor's.
C39_ExpandedContainsAnchor ==
    (call.op = "window" /\ call.pc = "expanded")
       => /\ \E i \in DOMAIN call.expanded.content :
                call.expanded.content[i] = call.anchor.content
          /\ call.expanded.chunk_id = call.anchor.chunk_id
          /\ call.expanded.chunk_index = call.anchor.chunk_index
          /\ call.expanded.chunk_type = call.anchor.chunk_type

\* ---------------------------------------------------------------------------
\* The accessible-document set on the agent routes
\* ---------------------------------------------------------------------------

\* POST /query and POST /query/stream, both of which may route to the agent
AgentEndpoints == {"ask_question", "ask_question_stream"}

\* accessible_doc_ids as the agent receives it: None, or a list of ids
NoRestriction == [is_none |-> TRUE, ids |-> {}]
RestrictedTo(S) == [is_none |-> FALSE, ids |-> S]

\* What each endpoint hands to the agent when get_accessible_doc_ids gave S:
\* ask_question calls run(question, accessible_doc_ids = S), the streaming
\* endpoint calls run_stream(question).
PassedToAgent(endpoint, S) ==
    IF endpoint = "ask_question" THEN RestrictedTo(S) ELSE NoRestriction

\* The documents whose stored data a tool puts into its result, for the
\* params doc_id / other_doc_id (for the two searching tools: the documents
\* the query matches or names).
tool_result_docs(tool_name, doc_id, other_doc_id, accessible_doc_ids) ==
    CASE tool_name = "search_documents" ->
            IF accessible_doc_ids.is_none THEN {doc_id, other_doc_id}
            ELSE {doc_id, other_doc_id} \cap accessible_doc_ids.ids
      [] tool_name = "read_document_summary" -> {doc_id}
      [] tool_name = "read_document_detail" -> {doc_id}
      [] tool_name = "list_documents" -> DocIds
      [] tool_name = "compare_versions" -> {doc_id, other_doc_id}
      [] tool_name = "get_version_history" -> {doc_id}
      [] tool_name = "cross_document_analysis" -> {doc_id, other_doc_id}

\* The endpoint routes the question to the agent for a user whose accessible
\* set is S (not None).
route_to_agent(endpoint, S) ==
    /\ call = NoCall
    /\ call' = [op |-> "agent_access", pc |-> "running", endpoint |-> endpoint,
                S |-> S, accessible_doc_ids |-> PassedToAgent(endpoint, S),
                tool_name |-> NULL, observed |-> {}]
    /\ UNCHANGED <<documents, chunks, qdrant, es, run, deleted, version_diffs>>

\* execute_tool(action, action_input, accessible_doc_ids) in a step of the
\* agent loop: only search_documents is given the set.
execute_tool_with_access(tool_name, doc_id, other_doc_id) ==
    /\ call.op = "agent_access"
    /\ call' = [call EXCEPT
                   !.pc = "observed", !.tool_name = tool_name,
                   !.observed = tool_result_docs(tool_name, doc_id, other_doc_id,
                                    IF tool_name = "search_documents"
                                    THEN call.accessible_doc_ids
                                    ELSE NoRestriction)]
    /\ UNCHANGED <<documents, chunks, qdrant, es, run, deleted, version_diffs>>

NextAccess ==
    \/ \E endpoint \in AgentEndpoints, S \in SUBSET DocIds : route_to_agent(endpoint, S)
    \/ \E tool_name \in ToolNames, doc_id, other_doc_id \in DocIds :
          execute_tool_with_access(tool_name, doc_id, other_doc_id)

SpecAccess == Init /\ [][NextAccess]_vars

\* C40: in an agent run for accessible set S no observation of any tool holds
\* data of a document outside S, and the streaming route hands the agent the
\* same set S as the non-streaming route.
C40_ObservationsWithinAccessible ==
    call.op = "agent_access"
       => /\ call.observed \subseteq call.S
          /\ call.accessible_doc_ids = RestrictedTo(call.S)
====
